---- MODULE Spec2Model ----
(***************************************************************************)
(* A model of the tool-execution subsystem of harmony-cli.                 *)
(*                                                                         *)
(* Three revisions of tools.py are modelled side by side:                  *)
(*   "strict"   - src/tools.py               (run / cache / apply_patch)   *)
(*   "lenient"  - src/src/tools.py           (exec / apply_patch)          *)
(*   "packaged" - src/src/harmony_cli/tools.py                             *)
(* and the two conversation loops, src/main.py (drives "strict") and       *)
(* src/src/harmony_cli/cli.py (drives "packaged").                         *)
(*                                                                         *)
(* Text is a sequence of one-character strings; "\n" is the line break.    *)
(* A patch line is a sequence of tokens: a header literal such as          *)
(* "*** Add File: " is one token, followed by the components of its path;  *)
(* a body line is its characters.                                          *)
(***************************************************************************)
EXTENDS Integers, Sequences, FiniteSets, TLC

VARIABLES
    rev,        \* the revision of tools.py this ToolExecutor is
    fs,         \* the file tree: location -> node
    touched,    \* history: every location a file-system call has mutated
    pc,         \* apply_patch: "idle" (no call running) or "ops" (in the loop)
    pending,    \* apply_patch: lines the finished operation left unread
    passes,     \* history: the passes apply_patch's loop has made so far
    applied,    \* apply_patch: summary_ops of the running call
    warnings,   \* apply_patch: any_errors of the running call
    last,       \* what the last step of apply_patch did, and its report
    dq,         \* _diff_and_stats: the last call's arguments and result
    xq,         \* execute_tool: the last call and what came back
    cq,         \* the output cache of the strict revision, and its last call
    conv        \* the conversation loop of main.py / cli.py

vars ==
    <<rev, fs, touched, pc, pending, passes, applied, warnings, last, dq, xq, cq,
      conv>>

patchVars == <<fs, touched, pc, pending, passes, applied, warnings, last>>

Revisions == {"strict", "lenient", "packaged"}

----------------------------------------------------------------------------
(* Generic helpers *)

NL == "\n"

Max2(a, b) == IF a >= b THEN a ELSE b
Min2(a, b) == IF a <= b THEN a ELSE b

Range(s) == {s[i] : i \in 1..Len(s)}

\* s[lo:hi] of Python, 0-based and half-open
Slice(s, lo, hi) == SubSeq(s, lo + 1, Min2(hi, Len(s)))

StartsWith(s, p) == Len(s) >= Len(p) /\ SubSeq(s, 1, Len(p)) = p

RECURSIVE Flatten(_)
Flatten(ss) == IF ss = <<>> THEN <<>> ELSE Head(ss) \o Flatten(Tail(ss))

RECURSIVE SumSeq(_)
SumSeq(s) == IF s = <<>> THEN 0 ELSE Head(s) + SumSeq(Tail(s))

\* "\n".join(lines)
RECURSIVE JoinNL(_)
JoinNL(lines) ==
    IF lines = <<>> THEN <<>>
    ELSE IF Len(lines) = 1 THEN lines[1]
    ELSE lines[1] \o <<NL>> \o JoinNL(Tail(lines))

\* str.splitlines() on text whose only line break is "\n"
RECURSIVE SplitAcc(_, _, _)
SplitAcc(text, cur, acc) ==
    IF text = <<>> THEN (IF cur = <<>> THEN acc ELSE Append(acc, cur))
    ELSE IF Head(text) = NL THEN SplitAcc(Tail(text), <<>>, Append(acc, cur))
    ELSE SplitAcc(Tail(text), Append(cur, Head(text)), acc)

SplitLines(text) == SplitAcc(text, <<>>, <<>>)

\* str.rstrip(): the only white space of the alphabet is the blank
RECURSIVE RStrip(_)
RStrip(s) ==
    IF s = <<>> THEN <<>>
    ELSE IF s[Len(s)] = " " THEN RStrip(SubSeq(s, 1, Len(s) - 1))
    ELSE s

RStripAll(lines) == [i \in 1..Len(lines) |-> RStrip(lines[i])]

\* the text _write_file and the Update branch write for a list of lines
FileText(content_lines) ==
    LET Terminated(text) ==
            IF text # <<>> /\ text[Len(text)] # NL THEN Append(text, NL) ELSE text
    IN  Terminated(JoinNL(content_lines))

----------------------------------------------------------------------------
(* The file tree *)

Roots == {"w", "o"}          \* "w" is the working root, "o" lies outside it
Names == {"a", "d", "k"}
CWD   == <<"w">>

Locs ==
    {<<>>} \cup {<<r>> : r \in Roots}
           \cup {<<r, n>> : r \in Roots, n \in Names}
           \cup {<<r, n, m>> : r \in Roots, n \in Names, m \in Names}

NoNode      == [kind |-> "none", text |-> <<>>, target |-> <<>>]
DirNode     == [kind |-> "dir",  text |-> <<>>, target |-> <<>>]
FileNode(t) == [kind |-> "file", text |-> t,    target |-> <<>>]
LinkNode(l) == [kind |-> "link", text |-> <<>>, target |-> l]

Parent(loc) == SubSeq(loc, 1, Len(loc) - 1)

Inside(loc) == StartsWith(loc, CWD)

\* Path.exists() / Path.is_dir() of a resolved location
Exists(tree, loc) == loc \in Locs /\ tree[loc].kind # "none"
IsDir(tree, loc)  == loc \in Locs /\ tree[loc].kind = "dir"

\* A "world" is the tree with the log of mutated locations.
World(tree, log) == [fs |-> tree, touched |-> log]

\* Path.mkdir(parents=True, exist_ok=True): ok is FALSE when it raises
RECURSIVE Mkdirs(_, _)
Mkdirs(w, loc) ==
    LET Below(up) ==
            IF ~up.ok THEN [ok |-> FALSE, w |-> w]
            ELSE [ok |-> TRUE,
                  w  |-> World([up.w.fs EXCEPT ![loc] = DirNode],
                               up.w.touched \cup {loc})]
    IN  IF IsDir(w.fs, loc) THEN [ok |-> TRUE, w |-> w]
        ELSE IF Exists(w.fs, loc) \/ loc = <<>> \/ loc \notin Locs
        THEN [ok |-> FALSE, w |-> w]
        ELSE Below(Mkdirs(w, Parent(loc)))

\* Path.write_text(text): raises on a directory or under a missing parent
WriteText(w, loc, text) ==
    IF loc \notin Locs \/ IsDir(w.fs, loc) \/ ~IsDir(w.fs, Parent(loc))
    THEN [ok |-> FALSE, w |-> w]
    ELSE [ok |-> TRUE,
          w  |-> World([w.fs EXCEPT ![loc] = FileNode(text)],
                       w.touched \cup {loc})]

\* Path.unlink()
Unlink(w, loc) ==
    World([w.fs EXCEPT ![loc] = NoNode], w.touched \cup {loc})

\* a move that leaves a file that is already at the destination as it is
ShutilMoveKeepingTheTarget(w, src, dst) ==
    LET real_dst == IF IsDir(w.fs, dst) THEN Append(dst, src[Len(src)]) ELSE dst
    IN  IF IsDir(w.fs, dst) /\ (real_dst \notin Locs \/ Exists(w.fs, real_dst))
        THEN [ok |-> FALSE, w |-> w, at |-> src]
        ELSE IF real_dst = src THEN [ok |-> TRUE, w |-> w, at |-> src]
        ELSE [ok |-> TRUE,
              w  |-> World([w.fs EXCEPT ![real_dst] = IF Exists(w.fs, real_dst)
                                                     THEN w.fs[real_dst]
                                                     ELSE w.fs[src],
                                        ![src] = NoNode],
                           w.touched \cup {src, real_dst}),
              at |-> real_dst]

\* shutil.move(src, dst) of a regular file: into dst when dst is a directory
\* (an error when the name is taken there), else a rename over dst
ShutilMove(w, src, dst) ==
    LET real_dst == IF IsDir(w.fs, dst) THEN Append(dst, src[Len(src)]) ELSE dst
    IN  IF IsDir(w.fs, dst) /\ (real_dst \notin Locs \/ Exists(w.fs, real_dst))
        THEN [ok |-> FALSE, w |-> w, at |-> src]
        ELSE IF real_dst = src THEN [ok |-> TRUE, w |-> w, at |-> src]
        ELSE [ok |-> TRUE,
              w  |-> World([w.fs EXCEPT ![real_dst] = w.fs[src], ![src] = NoNode],
                           w.touched \cup {src, real_dst}),
              at |-> real_dst]

----------------------------------------------------------------------------
(* PathGuard: _safe_rel_path *)

OsName == "posix"

\* Path(p).parts: "." components disappear
RECURSIVE Parts(_)
Parts(p) ==
    IF p = <<>> THEN <<>>
    ELSE IF Head(p) = "." THEN Parts(Tail(p))
    ELSE <<Head(p)>> \o Parts(Tail(p))

\* Path(p).resolve(): from the working directory (or from "/"), component by
\* component, following symbolic links
RECURSIVE ResolveFrom(_, _, _)
ResolveFrom(tree, loc, p) ==
    IF p = <<>> THEN loc
    ELSE IF Head(p) \in {".", "/"} THEN ResolveFrom(tree, loc, Tail(p))
    ELSE IF Head(p) = ".." THEN ResolveFrom(tree, Parent(loc), Tail(p))
    ELSE LET nxt == Append(loc, Head(p))
         IN  IF nxt \in Locs /\ tree[nxt].kind = "link"
             THEN ResolveFrom(tree, tree[nxt].target, Tail(p))
             ELSE ResolveFrom(tree, nxt, Tail(p))

Resolve(tree, p) ==
    IF p # <<>> /\ Head(p) = "/" THEN ResolveFrom(tree, <<>>, p)
    ELSE ResolveFrom(tree, CWD, p)

\* a drive letter or a leading backslash, which only Windows reads as absolute
NtAbsolute(p) == p # <<>> /\ Head(p) \in {"C:", "\\", "/"}

\* the result of _safe_rel_path: ok = FALSE when it raises ValueError; loc is
\* the location Path.cwd() / rel denotes
SafeRelPathNoContainment(tree, p) ==
    IF OsName = "nt" /\ NtAbsolute(p) THEN [ok |-> FALSE, loc |-> <<>>]
    ELSE IF \/ StartsWith(p, <<"/">>)
            \/ (StartsWith(p, <<".", "..">>) /\ Len(p) > 2)
            \/ (StartsWith(p, <<"..">>) /\ Len(p) > 1)
            \/ ".." \in Range(Parts(p))
         THEN [ok |-> FALSE, loc |-> <<>>]
    ELSE [ok |-> TRUE, loc |-> Resolve(tree, p)]

\* a guard that drops the offending components instead of raising
SafeRelPathCorrecting(tree, p) ==
    LET Contained(r) ==
            IF Inside(r) THEN [ok |-> TRUE, loc |-> r]
            ELSE [ok |-> FALSE, loc |-> <<>>]
    IN  Contained(Resolve(tree, SelectSeq(p, LAMBDA c : c \notin {"/", "..", "."})))

SafeRelPath(tree, p) ==
    LET Contained(r) ==
            IF Inside(r) THEN [ok |-> TRUE, loc |-> r]
            ELSE [ok |-> FALSE, loc |-> <<>>]
    IN  IF OsName = "nt" /\ NtAbsolute(p) THEN [ok |-> FALSE, loc |-> <<>>]
        ELSE IF \/ StartsWith(p, <<"/">>)
                \/ (StartsWith(p, <<".", "..">>) /\ Len(p) > 2)
                \/ (StartsWith(p, <<"..">>) /\ Len(p) > 1)
                \/ ".." \in Range(Parts(p))
        THEN [ok |-> FALSE, loc |-> <<>>]
        ELSE Contained(Resolve(tree, p))

\* str(rel): the resolved path relative to the working directory
Rel(loc) == SubSeq(loc, Len(CWD) + 1, Len(loc))

----------------------------------------------------------------------------
(* DiffReporter: difflib.unified_diff and _diff_and_stats *)

MAX_DIFF_LINES_PER_FILE == 300
DiffContext == 3        \* n=3 in the call of difflib.unified_diff

\* the length of the common run of a[i:ahi] and b[j:bhi] (0-based)
RECURSIVE RunLen(_, _, _, _, _, _)
RunLen(a, b, i, j, ahi, bhi) ==
    IF i < ahi /\ j < bhi /\ a[i + 1] = b[j + 1]
    THEN 1 + RunLen(a, b, i + 1, j + 1, ahi, bhi)
    ELSE 0

\* SequenceMatcher.find_longest_match without junk: the longest block, of
\* those the one starting earliest in a, of those the one earliest in b
FindLongestMatch(a, b, alo, ahi, blo, bhi) ==
    LET cands == (alo..(ahi - 1)) \X (blo..(bhi - 1))
        len(c) == RunLen(a, b, c[1], c[2], ahi, bhi)
        lens  == {len(c) : c \in cands}
        best  == IF lens = {} THEN 0 ELSE CHOOSE k \in lens : \A m \in lens : m <= k
    IN  IF best = 0 THEN <<alo, blo, 0>>
        ELSE LET top == {c \in cands : len(c) = best}
                 i   == CHOOSE x \in {c[1] : c \in top} :
                            \A y \in {c[1] : c \in top} : x <= y
                 js  == {c[2] : c \in {d \in top : d[1] = i}}
                 j   == CHOOSE x \in js : \A y \in js : x <= y
             IN  <<i, j, best>>

\* SequenceMatcher.get_matching_blocks, before the sentinel is appended
RECURSIVE MatchBlocks(_, _, _, _, _, _)
MatchBlocks(a, b, alo, ahi, blo, bhi) ==
    LET Around(m) ==
            IF m[3] = 0 THEN <<>>
            ELSE (IF alo < m[1] /\ blo < m[2]
                  THEN MatchBlocks(a, b, alo, m[1], blo, m[2]) ELSE <<>>)
                 \o <<m>>
                 \o (IF m[1] + m[3] < ahi /\ m[2] + m[3] < bhi
                     THEN MatchBlocks(a, b, m[1] + m[3], ahi, m[2] + m[3], bhi)
                     ELSE <<>>)
    IN  Around(FindLongestMatch(a, b, alo, ahi, blo, bhi))

\* adjacent blocks are merged into one
RECURSIVE CollapseBlocks(_, _)
CollapseBlocks(blocks, cur) ==
    IF blocks = <<>> THEN (IF cur[3] > 0 THEN <<cur>> ELSE <<>>)
    ELSE LET m == Head(blocks)
         IN  IF cur[1] + cur[3] = m[1] /\ cur[2] + cur[3] = m[2]
             THEN CollapseBlocks(Tail(blocks), <<cur[1], cur[2], cur[3] + m[3]>>)
             ELSE (IF cur[3] > 0 THEN <<cur>> ELSE <<>>)
                  \o CollapseBlocks(Tail(blocks), m)

MatchingBlocks(a, b) ==
    CollapseBlocks(MatchBlocks(a, b, 0, Len(a), 0, Len(b)), <<0, 0, 0>>)
        \o << <<Len(a), Len(b), 0>> >>

OpCode(tag, i1, i2, j1, j2) == [tag |-> tag, i1 |-> i1, i2 |-> i2, j1 |-> j1, j2 |-> j2]

\* SequenceMatcher.get_opcodes
RECURSIVE OpsFrom(_, _, _)
OpsFrom(blocks, i, j) ==
    IF blocks = <<>> THEN <<>>
    ELSE LET ai   == Head(blocks)[1]
             bj   == Head(blocks)[2]
             size == Head(blocks)[3]
             tag  == IF i < ai /\ j < bj THEN "replace"
                     ELSE IF i < ai THEN "delete"
                     ELSE IF j < bj THEN "insert" ELSE ""
         IN  (IF tag # "" THEN <<OpCode(tag, i, ai, j, bj)>> ELSE <<>>)
             \o (IF size > 0 THEN <<OpCode("equal", ai, ai + size, bj, bj + size)>>
                 ELSE <<>>)
             \o OpsFrom(Tail(blocks), ai + size, bj + size)

GetOpcodes(a, b) == OpsFrom(MatchingBlocks(a, b), 0, 0)

\* SequenceMatcher.get_grouped_opcodes(n): the loop over the trimmed codes
RECURSIVE GroupLoop(_, _, _)
GroupLoop(codes, group, n) ==
    IF codes = <<>>
    THEN IF group # <<>> /\ ~(Len(group) = 1 /\ group[1].tag = "equal")
         THEN <<group>> ELSE <<>>
    ELSE LET c == Head(codes)
         IN  IF c.tag = "equal" /\ c.i2 - c.i1 > n + n
             THEN <<Append(group, OpCode(c.tag, c.i1, Min2(c.i2, c.i1 + n),
                                         c.j1, Min2(c.j2, c.j1 + n)))>>
                  \o GroupLoop(Tail(codes),
                               <<OpCode(c.tag, Max2(c.i1, c.i2 - n), c.i2,
                                        Max2(c.j1, c.j2 - n), c.j2)>>, n)
             ELSE GroupLoop(Tail(codes), Append(group, c), n)

\* the first and the last code, when "equal", keep at most n lines
TrimFirst(codes, n) ==
    IF codes[1].tag = "equal"
    THEN [codes EXCEPT ![1] = OpCode("equal", Max2(@.i1, @.i2 - n), @.i2,
                                     Max2(@.j1, @.j2 - n), @.j2)]
    ELSE codes

TrimLast(codes, n) ==
    IF codes[Len(codes)].tag = "equal"
    THEN [codes EXCEPT ![Len(codes)] =
             OpCode("equal", @.i1, Min2(@.i2, @.i1 + n),
                    @.j1, Min2(@.j2, @.j1 + n))]
    ELSE codes

OrOneEqual(codes) ==
    IF codes = <<>> THEN <<OpCode("equal", 0, 1, 0, 1)>> ELSE codes

GetGroupedOpcodes(a, b, n) ==
    GroupLoop(TrimLast(TrimFirst(OrOneEqual(GetOpcodes(a, b)), n), n), <<>>, n)

\* One line of the emitted diff: its tag and its text as the string the
\* caller sees (lineterm="": header lines carry no line break, body lines
\* carry the "\n" that _diff_and_stats appended to every input line).
DiffLine(tag, s) == [tag |-> tag, s |-> s]

TagLines(tag, lines, lo, hi) ==
    [k \in 1..(hi - lo) |-> DiffLine(tag, <<tag>> \o lines[lo + k] \o <<NL>>)]

OpLines(a, b, c) ==
    IF c.tag = "equal" THEN TagLines(" ", a, c.i1, c.i2)
    ELSE (IF c.tag \in {"replace", "delete"} THEN TagLines("-", a, c.i1, c.i2) ELSE <<>>)
         \o (IF c.tag \in {"replace", "insert"} THEN TagLines("+", b, c.j1, c.j2) ELSE <<>>)

GroupLines(a, b, group) ==
    <<DiffLine("@@", <<"@", "@", " ">>)>>
        \o Flatten([k \in 1..Len(group) |-> OpLines(a, b, group[k])])

\* difflib.unified_diff(a, b, fromfile, tofile, lineterm="", n=3)
UnifiedDiff(a, b) ==
    LET Emit(groups) ==
            IF groups = <<>> THEN <<>>
            ELSE <<DiffLine("from", <<"-", "-", "-", " ">>),
                   DiffLine("to",   <<"+", "+", "+", " ">>)>>
                 \o Flatten([g \in 1..Len(groups) |-> GroupLines(a, b, groups[g])])
    IN  Emit(GetGroupedOpcodes(a, b, DiffContext))

\* the tests of the counting loop on one emitted line
IsAdded(dl) ==
    /\ dl.s # <<>>
    /\ StartsWith(dl.s, <<"+">>)
    /\ ~(StartsWith(dl.s, <<"+", "+", "+">>) \/ StartsWith(dl.s, <<"@", "@">>))

IsRemoved(dl) ==
    /\ dl.s # <<>>
    /\ ~StartsWith(dl.s, <<"+">>)
    /\ StartsWith(dl.s, <<"-">>)
    /\ ~(StartsWith(dl.s, <<"-", "-", "-">>) \/ StartsWith(dl.s, <<"@", "@">>))

\* the note that ends a cut diff; it states the number of lines left out
HiddenNote(omitted) ==
    [tag |-> "note", s |-> <<".", ".", ".">>, omitted |-> omitted]

\* the lines shown: at most MAX_DIFF_LINES_PER_FILE, then a note
Truncate(diff_lines) ==
    IF Len(diff_lines) > MAX_DIFF_LINES_PER_FILE
    THEN SubSeq(diff_lines, 1, MAX_DIFF_LINES_PER_FILE)
         \o <<HiddenNote(Len(diff_lines) - MAX_DIFF_LINES_PER_FILE)>>
    ELSE diff_lines

\* the counting loop run after the cut, over the lines that are shown
StatsOfShownLines(diff_lines) ==
    [diff    |-> Truncate(diff_lines),
     full    |-> Len(diff_lines),
     added   |-> Cardinality({i \in 1..Len(Truncate(diff_lines)) :
                                 IsAdded(Truncate(diff_lines)[i])}),
     removed |-> Cardinality({i \in 1..Len(Truncate(diff_lines)) :
                                 IsRemoved(Truncate(diff_lines)[i])})]

Stats(diff_lines) ==
    [diff    |-> Truncate(diff_lines),
     full    |-> Len(diff_lines),
     added   |-> Cardinality({i \in 1..Len(diff_lines) : IsAdded(diff_lines[i])}),
     removed |-> Cardinality({i \in 1..Len(diff_lines) : IsRemoved(diff_lines[i])})]

\* _diff_and_stats(old_lines, new_lines, from_name, to_name)
DiffAndStats(old_lines, new_lines) == Stats(UnifiedDiff(old_lines, new_lines))

----------------------------------------------------------------------------
(* PatchEngine: the lines of a patch document *)

BEGIN == "*** Begin Patch"
END   == "*** End Patch"
ADD   == "*** Add File: "
DEL   == "*** Delete File: "
UPD   == "*** Update File: "
OVW   == "*** Overwrite File: "
MOVE  == "*** Move to: "
EOFM  == "*** End of File"
STAR  == "*** "              \* the start of any other line beginning "*** "

StarTokens == {BEGIN, END, ADD, DEL, UPD, OVW, MOVE, EOFM, STAR}

AT2 == <<"@", "@">>

\* l.startswith("*** ")
IsStar(l) == l # <<>> /\ l[1] \in StarTokens

\* line.strip() == "*** End Patch" / _is_end(line)
IsEnd(l) == l = <<END>>

\* line.strip() == "*** Begin Patch" / _is_begin(line)
IsBegin(l) == l = <<BEGIN>>

\* _match_header(line) of the lenient and packaged revisions: the operation,
\* or "" when the line is no header (the regular expression wants an argument)
MatchHeader(l) ==
    IF l = <<>> \/ Len(l) < 2 THEN ""
    ELSE IF l[1] = ADD  THEN "add"
    ELSE IF l[1] = DEL  THEN "delete"
    ELSE IF l[1] = UPD  THEN "update"
    ELSE IF l[1] = OVW  THEN "overwrite"
    ELSE IF l[1] = MOVE THEN "move_to"
    ELSE ""

\* the operation the top of the loop dispatches on
HeaderOp(r, l) ==
    IF r = "strict"
    THEN IF l = <<>> THEN ""
         ELSE IF l[1] = ADD THEN "add"
         ELSE IF l[1] = DEL THEN "delete"
         ELSE IF l[1] = UPD THEN "update"
         ELSE ""
    ELSE MatchHeader(l)

\* where the body of an Add or Overwrite block ends
StopsBlock(r, l) ==
    IF r = "strict" THEN IsStar(l) ELSE (MatchHeader(l) # "" \/ IsEnd(l))

\* the '+' lines of an Add or Overwrite block, from line i on
RECURSIVE ReadPlus(_, _, _, _)
ReadPlus(r, lines, i, acc) ==
    IF i > Len(lines) \/ StopsBlock(r, lines[i])
    THEN [ok |-> TRUE, content |-> acc, i |-> i]
    ELSE IF ~StartsWith(lines[i], <<"+">>)
    THEN [ok |-> FALSE, content |-> acc, i |-> i]
    ELSE ReadPlus(r, lines, i + 1, Append(acc, Tail(lines[i])))

----------------------------------------------------------------------------
(* HunkMatcher *)

\* find_subseq(hay, needle): 0-based index of the first occurrence, or -1
RECURSIVE FindFrom(_, _, _)
FindFrom(hay, needle, s) ==
    IF s > Len(hay) - Len(needle) THEN -1
    ELSE IF Slice(hay, s, s + Len(needle)) = needle THEN s
    ELSE FindFrom(hay, needle, s + 1)

RECURSIVE FindBack(_, _, _)
FindBack(hay, needle, s) ==
    IF s < 0 THEN -1
    ELSE IF Slice(hay, s, s + Len(needle)) = needle THEN s
    ELSE FindBack(hay, needle, s - 1)

FindSubseqLast(hay, needle) ==
    IF needle = <<>> THEN 0 ELSE FindBack(hay, needle, Len(hay) - Len(needle))

\* a search that leaves out index 0
FindSubseqBelowTheTop(hay, needle) ==
    IF needle = <<>> THEN 0 ELSE FindFrom(hay, needle, 1)

FindSubseq(hay, needle) ==
    IF needle = <<>> THEN 0 ELSE FindFrom(hay, needle, 0)

\* the buffer find_subseq is handed: the lines as the hunks before left them
SearchOriginal(old_lines, file_lines) == old_lines

SearchBuffer(old_lines, file_lines) == file_lines

\* where a hunk goes: the exact search and, in the lenient revision, the
\* search after right-trimming both sides
LocateHunk(r, file_lines, before_seq) ==
    LET Relaxed(exact) ==
            IF exact = -1 /\ r = "lenient"
            THEN FindSubseq(RStripAll(file_lines), RStripAll(before_seq))
            ELSE exact
    IN  Relaxed(FindSubseq(file_lines, before_seq))

\* file_lines[:start_idx] + after_seq + file_lines[end_idx:]
Splice(file_lines, start_idx, before_seq, after_seq) ==
    Slice(file_lines, 0, start_idx) \o after_seq
        \o Slice(file_lines, start_idx + Len(before_seq), Len(file_lines))

\* where the body of a hunk ends
StopsHunk(r, l) ==
    IF r = "strict" THEN (IsStar(l) \/ StartsWith(l, AT2))
    ELSE (IsEnd(l) \/ MatchHeader(l) # "" \/ StartsWith(l, AT2))

\* the body lines of one hunk, from line i on: ok is FALSE at a line whose
\* prefix is none of ' ', '-', '+'
RECURSIVE ParseHunk(_, _, _, _, _)
ParseHunk(r, lines, i, before_seq, after_seq) ==
    IF i > Len(lines) \/ StopsHunk(r, lines[i])
    THEN [ok |-> TRUE, before |-> before_seq, after |-> after_seq, i |-> i]
    ELSE LET hl == lines[i]
         IN  IF hl = <<>>
             THEN ParseHunk(r, lines, i + 1, Append(before_seq, <<>>),
                            Append(after_seq, <<>>))
             ELSE IF hl[1] = " "
             THEN ParseHunk(r, lines, i + 1, Append(before_seq, Tail(hl)),
                            Append(after_seq, Tail(hl)))
             ELSE IF hl[1] = "-"
             THEN ParseHunk(r, lines, i + 1, Append(before_seq, Tail(hl)), after_seq)
             ELSE IF hl[1] = "+"
             THEN ParseHunk(r, lines, i + 1, before_seq, Append(after_seq, Tail(hl)))
             ELSE [ok |-> FALSE, before |-> before_seq, after |-> after_seq, i |-> i]

\* one entry of the record of an Update's hunks: the buffer the hunk was
\* searched in, its two sequences, where it went (-1: nowhere), the buffer after
HunkStep(buf, before_seq, after_seq, idx, out) ==
    [buf |-> buf, before |-> before_seq, after |-> after_seq, idx |-> idx, out |-> out]

\* the hunk loop of the strict revision (src/tools.py)
RECURSIVE StrictHunks(_, _, _, _, _)
StrictHunks(lines, i, old_lines, file_lines, trace) ==
    LET Applied(h, hay, idx, out) ==
            StrictHunks(lines,
                        IF h.i <= Len(lines) /\ lines[h.i] = <<EOFM>>
                        THEN h.i + 1 ELSE h.i,
                        old_lines, out,
                        Append(trace, HunkStep(hay, h.before, h.after, idx, out)))
        Located(h, hay, idx) ==
            IF idx = -1
            THEN [err |-> "hunk_not_found", i |-> h.i, file_lines |-> file_lines,
                  trace |-> Append(trace, HunkStep(hay, h.before, h.after, -1,
                                                   file_lines))]
            ELSE Applied(h, hay, idx, Splice(file_lines, idx, h.before, h.after))
        Searched(h, hay) == Located(h, hay, LocateHunk("strict", hay, h.before))
        Parsed(h) ==
            IF ~h.ok
            THEN [err |-> "bad_prefix", i |-> h.i, file_lines |-> file_lines,
                  trace |-> trace]
            ELSE Searched(h, SearchBuffer(old_lines, file_lines))
    IN  IF i <= Len(lines) /\ StartsWith(lines[i], AT2)
        THEN Parsed(ParseHunk("strict", lines, i + 1, <<>>, <<>>))
        ELSE [err |-> "", i |-> i, file_lines |-> file_lines, trace |-> trace]

\* a hunk loop that gives up at the first hunk it cannot find
GivingUpHunks(lines, i, old_lines, file_lines, trace) ==
    StrictHunks(lines, i, old_lines, file_lines, trace)

\* the hunk loop of the lenient revision (src/src/tools.py)
RECURSIVE LenientHunks(_, _, _, _, _)
LenientHunks(lines, i, old_lines, file_lines, trace) ==
    LET Applied(h, hay, idx, out) ==
            LenientHunks(lines, h.i, old_lines, out,
                         Append(trace, HunkStep(hay, h.before, h.after, idx, out)))
        Located(h, hay, idx) ==
            Applied(h, hay, idx,
                    IF idx = -1 THEN file_lines
                    ELSE Splice(file_lines, idx, h.before, h.after))
        Searched(h, hay) == Located(h, hay, LocateHunk("lenient", hay, h.before))
        Parsed(h) ==
            IF ~h.ok
            THEN [err |-> "bad_prefix", i |-> h.i, file_lines |-> file_lines,
                  trace |-> trace]
            ELSE Searched(h, SearchBuffer(old_lines, file_lines))
    IN  IF i > Len(lines) \/ IsEnd(lines[i]) \/ MatchHeader(lines[i]) # ""
        THEN [err |-> "", i |-> i, file_lines |-> file_lines, trace |-> trace]
        ELSE IF ~StartsWith(lines[i], AT2)
        THEN IF RStrip(lines[i]) = <<>>
             THEN LenientHunks(lines, i + 1, old_lines, file_lines, trace)
             ELSE [err |-> "expected_hunk", i |-> i, file_lines |-> file_lines,
                   trace |-> trace]
        ELSE Parsed(ParseHunk("lenient", lines, i + 1, <<>>, <<>>))

----------------------------------------------------------------------------
(* PatchEngine: one operation of apply_patch *)

\* What one pass of the loop over the document leaves: outcome "ok" (the loop
\* goes on), "error" (apply_patch returns an error report) or "raise" (an
\* exception leaves apply_patch); w the world after it; i the line it stopped
\* at; summ the entries it appended to summary_ops, warn those to any_errors.
Result(outcome, err, w, i) ==
    [outcome |-> outcome, err |-> err, w |-> w, i |-> i,
     summ |-> <<>>, warn |-> <<>>, loc |-> <<>>, dest |-> <<>>, at |-> <<>>,
     content |-> <<>>, trace |-> <<>>]

\* an entry of summary_ops: "Verb path (+added/-removed, net n)"; the strict
\* and lenient Add print "(+added)" only, their Delete "(-removed)" only
Summary(verb, loc, added, removed, style) ==
    [verb |-> verb, path |-> Rel(loc), added |-> added, removed |-> removed,
     net |-> added - removed, style |-> style]

\* _write_file(path, content_lines)
WriteFile(w, loc, content_lines) ==
    LET Into(up) ==
            IF ~up.ok THEN [ok |-> FALSE, w |-> w]
            ELSE WriteText(up.w, loc, FileText(content_lines))
    IN  Into(Mkdirs(w, Parent(loc)))

\* the lines read_text().splitlines() gives for an existing file
ReadLines(tree, loc) == SplitLines(tree[loc].text)

\* the lines of the file at loc, none when there is no file
OldLines(tree, loc) == IF Exists(tree, loc) THEN ReadLines(tree, loc) ELSE <<>>

\* the outcome of an Add or Overwrite once _write_file was called
Written(wr, abs_path, body, summ) ==
    IF ~wr.ok
    THEN [Result("raise", "OSError", wr.w, body.i) EXCEPT !.loc = abs_path]
    ELSE [Result("ok", "", wr.w, body.i) EXCEPT
             !.loc = abs_path, !.at = abs_path, !.content = body.content,
             !.summ = summ]

\* the summary entry with both counts of a diff
DiffSummary(verb, loc, st) == <<Summary(verb, loc, st.added, st.removed, "full")>>

\* "*** Add File: <path>" and its '+' lines
AddFile(r, w, lines) ==
    LET Checked(rel, body) ==
            IF ~rel.ok THEN Result("error", "bad_path", w, 1)
            ELSE IF ~body.ok THEN Result("error", "expects_plus", w, body.i)
            ELSE IF r # "packaged" /\ IsDir(w.fs, rel.loc)
            THEN [Result("error", "is_dir", w, body.i) EXCEPT !.loc = rel.loc]
            ELSE IF r # "packaged" /\ Exists(w.fs, rel.loc)
            THEN [Result("error", "exists", w, body.i) EXCEPT !.loc = rel.loc]
            ELSE IF IsDir(w.fs, rel.loc)
            THEN [Result("raise", "IsADirectoryError", w, body.i)
                     EXCEPT !.loc = rel.loc]
            ELSE Written(WriteFile(w, rel.loc, body.content), rel.loc, body,
                         IF r = "packaged"
                         THEN DiffSummary("Added", rel.loc,
                                  DiffAndStats(OldLines(w.fs, rel.loc), body.content))
                         ELSE <<Summary("Added", rel.loc, Len(body.content), 0,
                                        "plus")>>)
    IN  Checked(SafeRelPath(w.fs, Tail(lines[1])), ReadPlus(r, lines, 2, <<>>))

\* "*** Delete File: <path>"
DeleteFile(r, w, lines) ==
    LET Checked(rel) ==
            IF ~rel.ok THEN Result("error", "bad_path", w, 1)
            ELSE IF ~Exists(w.fs, rel.loc)
            THEN [Result("error", "missing", w, 1) EXCEPT !.loc = rel.loc]
            ELSE IF IsDir(w.fs, rel.loc)
            THEN [Result("error", "is_dir", w, 1) EXCEPT !.loc = rel.loc]
            ELSE [Result("ok", "", Unlink(w, rel.loc), 2) EXCEPT
                     !.loc = rel.loc, !.at = rel.loc,
                     !.summ = IF r = "packaged"
                              THEN DiffSummary("Deleted", rel.loc,
                                       DiffAndStats(ReadLines(w.fs, rel.loc), <<>>))
                              ELSE <<Summary("Deleted", rel.loc, 0,
                                             Len(ReadLines(w.fs, rel.loc)),
                                             "minus")>>]
    IN  Checked(SafeRelPath(w.fs, Tail(lines[1])))

\* "*** Overwrite File: <path>" and its '+' lines (lenient and packaged)
OverwriteFile(r, w, lines) ==
    LET Checked(rel, body) ==
            IF ~rel.ok THEN Result("error", "bad_path", w, 1)
            ELSE IF ~body.ok THEN Result("error", "expects_plus", w, body.i)
            ELSE IF IsDir(w.fs, rel.loc)
            THEN [Result("raise", "IsADirectoryError", w, body.i)
                     EXCEPT !.loc = rel.loc]
            ELSE Written(WriteFile(w, rel.loc, body.content), rel.loc, body,
                         DiffSummary("Overwrote", rel.loc,
                             DiffAndStats(OldLines(w.fs, rel.loc), body.content)))
    IN  Checked(SafeRelPath(w.fs, Tail(lines[1])), ReadPlus(r, lines, 2, <<>>))

\* the hunks of an Update in the packaged revision (src/src/harmony_cli/tools.py):
\* lines up to a blank line, a header or the end marker form one hunk
RECURSIVE CollectHunk(_, _, _)
CollectHunk(lines, i, acc) ==
    IF i > Len(lines) \/ IsEnd(lines[i]) \/ MatchHeader(lines[i]) # ""
    THEN [hunk_lines |-> acc, i |-> i]
    ELSE IF RStrip(lines[i]) = <<>> THEN [hunk_lines |-> acc, i |-> i + 1]
    ELSE CollectHunk(lines, i + 1, Append(acc, lines[i]))

\* [l[1:] for l in hunk_lines if l.startswith(c)]
RECURSIVE WithPrefix(_, _)
WithPrefix(hunk_lines, c) ==
    IF hunk_lines = <<>> THEN <<>>
    ELSE IF StartsWith(Head(hunk_lines), <<c>>)
    THEN <<Tail(Head(hunk_lines))>> \o WithPrefix(Tail(hunk_lines), c)
    ELSE WithPrefix(Tail(hunk_lines), c)

\* win.remove(rl), ValueError ignored
RECURSIVE RemoveFirst(_, _)
RemoveFirst(win, rl) ==
    IF win = <<>> THEN <<>>
    ELSE IF Head(win) = rl THEN Tail(win)
    ELSE <<Head(win)>> \o RemoveFirst(Tail(win), rl)

RECURSIVE RemoveEach(_, _)
RemoveEach(win, rem) ==
    IF rem = <<>> THEN win ELSE RemoveEach(RemoveFirst(win, Head(rem)), Tail(rem))

\* one hunk of the packaged revision applied to the buffer; pos = -1 with a
\* context means the hunk is skipped with a warning
PackagedApply(file_lines, ctx, add, rem) ==
    LET At(pos) ==
            IF ctx # <<>>
            THEN IF pos = -1
                 THEN [file_lines |-> file_lines, pos |-> -1, skipped |-> TRUE]
                 ELSE [file_lines |->
                          Slice(file_lines, 0, pos)
                            \o RemoveEach(Slice(file_lines, pos, pos + Len(ctx)), rem)
                            \o add
                            \o Slice(file_lines, pos + Len(ctx), Len(file_lines)),
                       pos |-> pos, skipped |-> FALSE]
            ELSE [file_lines |->
                     (IF rem # <<>> /\ pos # -1
                      THEN Slice(file_lines, 0, pos)
                             \o Slice(file_lines, pos + Len(rem), Len(file_lines))
                      ELSE file_lines) \o add,
                  pos |-> pos, skipped |-> FALSE]
    IN  At(FindSubseq(file_lines, IF ctx # <<>> THEN ctx ELSE rem))

RECURSIVE PackagedHunks(_, _, _, _, _)
PackagedHunks(lines, i, file_lines, trace, warn) ==
    LET Applied(c, ctx, add, rem, ap) ==
            PackagedHunks(lines, c.i, ap.file_lines,
                Append(trace, HunkStep(file_lines, IF ctx # <<>> THEN ctx ELSE rem,
                                       add, ap.pos, ap.file_lines)),
                IF ap.skipped THEN Append(warn, "context_not_found") ELSE warn)
        Split(c, ctx, add, rem) ==
            Applied(c, ctx, add, rem, PackagedApply(file_lines, ctx, add, rem))
        Collected(c) ==
            Split(c, WithPrefix(c.hunk_lines, " "), WithPrefix(c.hunk_lines, "+"),
                  WithPrefix(c.hunk_lines, "-"))
    IN  IF i > Len(lines) \/ IsEnd(lines[i]) \/ MatchHeader(lines[i]) # ""
        THEN [err |-> "", i |-> i, file_lines |-> file_lines, trace |-> trace,
              warn |-> warn]
        ELSE Collected(CollectHunk(lines, i, <<>>))

\* the text the packaged Update writes for its buffer
PackagedFileText(file_lines) ==
    IF file_lines = <<>> THEN <<>> ELSE Append(JoinNL(file_lines), NL)

\* the hunks of an Update, by revision
Hunks(r, lines, i, old_lines) ==
    IF r = "strict"
    THEN StrictHunks(lines, i, old_lines, old_lines, <<>>) @@ [warn |-> <<>>]
    ELSE IF r = "lenient"
    THEN LenientHunks(lines, i, old_lines, old_lines, <<>>) @@ [warn |-> <<>>]
    ELSE PackagedHunks(lines, i, old_lines, <<>>, <<>>)

\* whether some hunk of the trace was applied
AnyApplied(trace) == \E j \in 1..Len(trace) : trace[j].idx # -1

\* the end of an Update: write the buffer, move the file, report
FinishUpdate(r, w, abs_path, has_move, new_abs, old_lines, hk) ==
    LET base(o, e, ww) ==
            [Result(o, e, ww, hk.i) EXCEPT
                !.loc = abs_path, !.dest = IF has_move THEN new_abs ELSE <<>>,
                !.trace = hk.trace, !.warn = hk.warn, !.content = hk.file_lines]
        final_read_path == IF has_move THEN new_abs ELSE abs_path
        Moved(mk, mv) ==
            IF ~mv.ok THEN base("raise", "shutil.Error", mk.w)
            ELSE IF r # "packaged" /\ IsDir(mv.w.fs, final_read_path)
            THEN [base("raise", "IsADirectoryError", mv.w) EXCEPT !.at = mv.at]
            ELSE [base("ok", "", mv.w) EXCEPT
                     !.at = mv.at,
                     !.summ = DiffSummary("Updated",
                                  IF r = "packaged" /\ has_move THEN new_abs
                                  ELSE abs_path,
                                  DiffAndStats(old_lines,
                                      IF r = "packaged" THEN hk.file_lines
                                      ELSE ReadLines(mv.w.fs, final_read_path)))]
        Made(wr, mk) ==
            IF ~mk.ok THEN base("raise", "OSError", wr.w)
            ELSE Moved(mk, IF has_move THEN ShutilMove(mk.w, abs_path, new_abs)
                           ELSE [ok |-> TRUE, w |-> mk.w, at |-> abs_path])
        Wrote(wr) ==
            IF ~wr.ok THEN base("raise", "OSError", wr.w)
            ELSE Made(wr, IF has_move THEN Mkdirs(wr.w, Parent(new_abs))
                          ELSE [ok |-> TRUE, w |-> wr.w])
    IN  Wrote(WriteText(w, abs_path,
                        IF r = "packaged" THEN PackagedFileText(hk.file_lines)
                        ELSE FileText(hk.file_lines)))

\* whether the line after the Update header is "*** Move to: <path>"
MoveLine(r, lines) ==
    /\ Len(lines) >= 2
    /\ IF r = "strict" THEN StartsWith(lines[2], <<MOVE>>)
       ELSE MatchHeader(lines[2]) = "move_to"

\* "*** Update File: <path>", an optional "*** Move to: <path>", and hunks
UpdateFile(r, w, lines) ==
    LET Patched(abs_path, has_move, move_to, old_lines, hk) ==
            IF ~move_to.ok
            THEN [Result("error", "bad_move_path", w, 2) EXCEPT !.loc = abs_path]
            ELSE IF hk.err # ""
            THEN [Result("error", hk.err, w, hk.i) EXCEPT
                     !.loc = abs_path, !.trace = hk.trace]
            ELSE IF r = "strict" /\ ~AnyApplied(hk.trace)
            THEN [Result("error", "no_hunks", w, hk.i) EXCEPT !.loc = abs_path]
            ELSE IF r = "lenient" /\ ~AnyApplied(hk.trace)
            THEN [Result("ok", "", w, hk.i) EXCEPT
                     !.loc = abs_path, !.trace = hk.trace,
                     !.warn = <<"no_applied_hunks">>]
            ELSE FinishUpdate(r, w, abs_path, has_move, move_to.loc, old_lines, hk)
        Read(abs_path, has_move, move_to, old_lines) ==
            Patched(abs_path, has_move, move_to, old_lines,
                    Hunks(r, lines, IF has_move THEN 3 ELSE 2, old_lines))
        Checked(rel, has_move) ==
            IF ~rel.ok THEN Result("error", "bad_path", w, 1)
            ELSE IF ~Exists(w.fs, rel.loc) \/ IsDir(w.fs, rel.loc)
            THEN [Result("error", "no_target", w, 1) EXCEPT !.loc = rel.loc]
            ELSE Read(rel.loc, has_move,
                      IF has_move THEN SafeRelPath(w.fs, Tail(lines[2]))
                      ELSE [ok |-> TRUE, loc |-> <<>>],
                      ReadLines(w.fs, rel.loc))
    IN  Checked(SafeRelPath(w.fs, Tail(lines[1])), MoveLine(r, lines))

\* a loop body whose strict Update writes the buffer as far as the hunks got
\* when a later hunk fails
DispatchWritingMatchedHunks(r, w, lines) ==
    LET Kept(res) ==
            IF /\ r = "strict"
               /\ res.outcome = "error"
               /\ res.err \in {"hunk_not_found", "bad_prefix"}
               /\ AnyApplied(res.trace)
            THEN [res EXCEPT !.w = WriteText(w, res.loc,
                                       FileText(res.trace[Len(res.trace)].out)).w]
            ELSE res
        Branch(op) ==
            IF op = "add" THEN AddFile(r, w, lines)
            ELSE IF op = "delete" THEN DeleteFile(r, w, lines)
            ELSE IF op = "overwrite" THEN OverwriteFile(r, w, lines)
            ELSE IF op = "update" THEN UpdateFile(r, w, lines)
            ELSE Result("error", "unrecognized", w, 1)
    IN  Kept(Branch(HeaderOp(r, lines[1])))

\* the branch of the loop body the current line selects
Dispatch(r, w, lines) ==
    LET Branch(op) ==
            IF op = "add" THEN AddFile(r, w, lines)
            ELSE IF op = "delete" THEN DeleteFile(r, w, lines)
            ELSE IF op = "overwrite" THEN OverwriteFile(r, w, lines)
            ELSE IF op = "update" THEN UpdateFile(r, w, lines)
            ELSE Result("error", "unrecognized", w, 1)
    IN  Branch(HeaderOp(r, lines[1]))

\* a loop body that, on an error, removes the file the operation named
LoopPassCleaningUp(r, w, lines) ==
    LET Cleaned(res) ==
            IF res.outcome = "error" /\ res.loc # <<>> /\ Exists(w.fs, res.loc)
                /\ ~IsDir(w.fs, res.loc)
            THEN [res EXCEPT !.w = Unlink(w, res.loc)]
            ELSE res
    IN  Cleaned(Dispatch(r, w, lines))

\* one pass of "while i < len(lines)" over the lines from the current one on
\* (the current line is not the end marker): an error return leaves the tree
\* as the operations before it made it
LoopPass(r, w, lines) == Dispatch(r, w, lines)

----------------------------------------------------------------------------
(* ToolExecutor.execute_tool: the lookup table and the call through it *)

\* self._available_tools of each revision (the packaged revision has its
\* "exec" and "apply_patch" entries commented out)
AvailableTools(r) ==
    CASE r = "strict"   -> {"run", "cache", "apply_patch"}
      [] r = "lenient"  -> {"exec", "apply_patch"}
      [] r = "packaged" -> {"python", "shell"}

\* the parameters of each registered handler: those without a default and
\* those with one
Signature(r, tool_name) ==
    CASE tool_name \in {"run", "exec"} ->
            [req |-> {"kind", "code"}, opt |-> {"timeout"}]
      [] tool_name = "cache" ->
            [req |-> {"action", "cache_id"}, opt |-> {"page", "page_size"}]
      [] tool_name = "apply_patch" -> [req |-> {"patch"}, opt |-> {}]
      [] tool_name = "python" -> [req |-> {"code"}, opt |-> {"timeout"}]
      [] tool_name = "shell" -> [req |-> {"command"}, opt |-> {"timeout"}]
      [] OTHER -> [req |-> {}, opt |-> {}]

\* method(**kwargs) binds: every required parameter given, nothing unknown
Binds(sig, kwargs) ==
    /\ sig.req \subseteq kwargs
    /\ kwargs \subseteq (sig.req \cup sig.opt)

\* what a handler body can do once it was entered: return its report, or let
\* a TypeError, another Exception, or a BaseException that is no Exception
\* (KeyboardInterrupt while a child process runs) leave it
HandlerBehaviours == {"returns", "TypeError", "Exception", "BaseException"}

\* the value execute_tool hands back: a string in the strict revision, a
\* dict with the keys model and display in the other two
ReportShape(r) == IF r = "strict" THEN "text" ELSE "pair"

Returned(r, class) ==
    [kind |-> "returned", shape |-> ReportShape(r), class |-> class, exc |-> ""]

Raised(exc) == [kind |-> "raised", shape |-> "none", class |-> "", exc |-> exc]

NoResult == [kind |-> "none", shape |-> "none", class |-> "", exc |-> ""]

\* the names execute_tool itself binds: a keyword of the same name in the
\* argument object makes the call itself fail, before the body is entered
OwnParameters == {"self", "tool_name"}

\* execute_tool(tool_name, **kwargs), the handler behaving as beh
ExecuteTool(r, tool_name, kwargs, beh) ==
    IF kwargs \cap OwnParameters # {} THEN Raised("TypeError")
    ELSE IF tool_name \notin AvailableTools(r) THEN Returned(r, "not_found")
    ELSE IF ~Binds(Signature(r, tool_name), kwargs)
        THEN Returned(r, "invalid_arguments")
    ELSE CASE beh = "returns" -> Returned(r, "handler_report")
           [] beh = "TypeError" -> Returned(r, "invalid_arguments")
           [] beh = "Exception" -> Returned(r, "handler_error")
           [] beh = "BaseException" -> Raised("KeyboardInterrupt")

\* the two conversation loops, the executor each imports, and the tools each
\* advertises to the model in tools_definition
FrontEnds == {"cli", "main"}

Executor(front) == IF front = "cli" THEN "packaged" ELSE "strict"

Advertised(front) ==
    IF front = "cli" THEN {"exec", "python", "apply_patch"}
    ELSE {"run", "cache", "apply_patch"}

\* one call of execute_tool as the record kept of it
CallRecord(via, r, tool_name, kwargs, beh) ==
    [kind |-> "call", via |-> via, name |-> tool_name, kwargs |-> kwargs,
     result |-> ExecuteTool(r, tool_name, kwargs, beh)]

----------------------------------------------------------------------------
(* Initial values *)

SeqsUpTo(S, n) == UNION {[1..k -> S] : k \in 0..n}

\* The tree the tool starts in: a file and a directory in the working root,
\* a symbolic link in the working root to the directory outside it.
FsInit ==
    [loc \in Locs |->
        IF loc \in {<<>>, <<"w">>, <<"o">>, <<"w", "d">>} THEN DirNode
        ELSE IF loc = <<"w", "a">> THEN FileNode(<<"a", NL, "b", NL, "a", NL>>)
        ELSE IF loc = <<"o", "a">> THEN FileNode(<<"a", NL>>)
        ELSE IF loc = <<"w", "k">> THEN LinkNode(<<"o">>)
        ELSE NoNode]

\* the record of one step of apply_patch: the operation, how it ended, the
\* raw path of its header, and what the pass reported
StepOf(op, r, path) ==
    [op |-> op, outcome |-> r.outcome, err |-> r.err, path |-> path,
     move |-> <<>>, has_move |-> FALSE,
     loc |-> r.loc, dest |-> r.dest, at |-> r.at, summ |-> r.summ,
     warn |-> r.warn, trace |-> r.trace, content |-> r.content,
     report |-> ""]

NoStep == StepOf("none", Result("", "", World(<<>>, {}), 0), <<>>)
DqInit ==
    [pc |-> "idle", old |-> <<>>, new |-> <<>>, out |-> DiffAndStats(<<>>, <<>>)]
XqInit ==
    [kind |-> "none", via |-> "", name |-> "", kwargs |-> {},
     result |-> NoResult]
\* self.cache = {} and no call made yet; issued, dropped and reported are
\* history: the ids uuid4 has handed out, the ids a drop has removed, and the
\* totals the views have stated
CqInit ==
    [pc |-> "idle", cache |-> <<>>, issued |-> {}, dropped |-> {},
     reported |-> {}, call |-> [tool |-> "none"], result |-> [shape |-> "none"]]
\* the conversation loop before the first prompt: the system and developer
\* messages are in the history, nothing was streamed or called
ConvInit ==
    [front |-> "cli", pc |-> "prompt", n |-> 0, calls |-> <<>>, k |-> 0,
     results |-> <<>>,
     history |-> <<[role |-> "system", ids |-> <<>>, interrupted |-> FALSE],
                   [role |-> "user", ids |-> <<>>, interrupted |-> FALSE]>>,
     dispatched |-> <<>>, interrupted_ids |-> {}]

PatchIdle ==
    /\ fs = FsInit
    /\ touched = {}
    /\ pc = "idle"
    /\ pending = <<>>
    /\ passes = 0
    /\ applied = <<>>
    /\ warnings = <<>>
    /\ last = NoStep

----------------------------------------------------------------------------
(* _diff_and_stats as a state machine: a call, and the caller taking the   *)
(* result                                                                  *)

MaxDiffLen == 2

DiffTexts == {<<"a">>, <<"b">>, <<"+">>, <<"+", "+">>, <<"-", "-", "a">>}
DiffInputs == SeqsUpTo(DiffTexts, MaxDiffLen)

\* files whose diff against the empty file or a short file is as long as
\* MAX_DIFF_LINES_PER_FILE (two header lines, one hunk line, the body) or
\* longer
Repeated(line, n) == [i \in 1..n |-> line]
DiffLong ==
    { Repeated(<<"a">>, MAX_DIFF_LINES_PER_FILE - 3),
      Repeated(<<"a">>, MAX_DIFF_LINES_PER_FILE - 2),
      Repeated(<<"b">>, MAX_DIFF_LINES_PER_FILE + 100) }
DiffShort == {<<>>, <<<<"a">>>>, <<<<"b">>, <<"-", "-", "a">>>>}

DiffCall(old_lines, new_lines) ==
    /\ dq.pc = "idle"
    /\ dq' = [pc |-> "returned", old |-> old_lines, new |-> new_lines,
              out |-> DiffAndStats(old_lines, new_lines)]
    /\ UNCHANGED <<rev, patchVars, xq, cq, conv>>

\* the caller has used the diff text and the counts
DiffReturn ==
    /\ dq.pc = "returned"
    /\ dq' = DqInit
    /\ UNCHANGED <<rev, patchVars, xq, cq, conv>>

DiffNext ==
    \/ \E o \in DiffInputs, n \in DiffInputs : DiffCall(o, n)
    \/ \E o \in DiffLong, n \in DiffShort : DiffCall(o, n) \/ DiffCall(n, o)
    \/ DiffReturn

DiffInitAll ==
    /\ rev = "strict"
    /\ PatchIdle
    /\ dq = DqInit
    /\ xq = XqInit
    /\ cq = CqInit
    /\ conv = ConvInit

SpecDiff == DiffInitAll /\ [][DiffNext]_vars

TaggedLines(lines, tag) == Cardinality({i \in 1..Len(lines) : lines[i].tag = tag})

\* C6: the added count returned by _diff_and_stats is the number of body lines
\* tagged '+' in the unified diff it produced, and the removed count is the
\* number of body lines tagged '-', whatever the text of the lines is.
C6_CountsEqualTaggedBodyLines ==
    /\ dq.out.added   = TaggedLines(dq.out.diff, "+")
    /\ dq.out.removed = TaggedLines(dq.out.diff, "-")

CountedLines(lines, Counted(_)) ==
    Cardinality({i \in 1..Len(lines) : Counted(lines[i])})

----------------------------------------------------------------------------
(* apply_patch as a state machine: one pass of its loop per step *)

MaxPasses == 2     \* passes of the loop in one behaviour

JunkLine == <<STAR, "x">>

\* bodies of an Add or Overwrite block: '+' lines, then lines that are none
PlusBodies ==
    { <<<<"+", "a">>>>,
      <<<<"+", "-", "-", "a">>>>,
      <<<<"+">>>>,
      <<<<"a">>>>,
      <<<<"+", "a">>, JunkLine>> }

\* the lines after the header of an Update block
HunkBodies ==
    { <<>>,
      <<AT2, <<"-", "a">>, <<"+", "b">>>>,
      <<AT2, <<" ", "a">>, <<"+", "b">>>>,
      <<AT2, <<"+", "a">>>>,
      <<AT2, <<"-", "a", " ">>, <<"+", "b">>>>,
      <<AT2, <<"-", "x">>, <<"+", "a">>>>,
      <<AT2, <<"x", "a">>>>,
      <<AT2, <<"-", "b">>, <<"+", "x">>, AT2, <<"-", "x">>, <<"+", "b">>, <<"+", "b">>>>,
      <<AT2, <<"-", "x">>, AT2, <<"-", "a">>>>,
      <<AT2, <<"-", "a">>, <<EOFM>>>>,
      <<<<"-", "a">>, <<>>, <<"+", "b">>>>,
      <<AT2, <<" ", "a">>, <<"-", "b">>, <<"+", "x">>, <<" ", "a">>>>,
      <<AT2, <<"-", "a">>, <<"+", "b">>, AT2, <<"-", "x">>>>,
      <<AT2, <<"-", "a">>, <<"+", "b">>, AT2, <<"x", "a">>>>,
      <<AT2, <<"-", "b">>, <<"+", "x">>, AT2, <<"-", "a">>, <<"-", "x">>, <<"+", "b">>,
        AT2, <<"+", "x">>>> }

\* paths that leave the working root or pass the link out of it
BadPaths  == {<<"..", "a">>, <<"/", "o", "a">>, <<"d", "..", "a">>, <<"k", "a">>}
MovePaths == {<<"d", "a">>, <<"d">>, <<"..", "a">>, <<"k", "a">>}

AddBlocks ==
    {<<<<ADD, "d", "a">>>> \o b : b \in PlusBodies}
        \cup {<<<<ADD>> \o p, <<"+", "a">>>> : p \in BadPaths \cup {<<"a">>, <<"d">>}}

OverwriteBlocks ==
    {<<<<OVW>> \o p, <<"+", "a">>>> :
        p \in {<<"a">>, <<"d", "a">>, <<"d">>, <<"..", "a">>, <<"k", "a">>}}
        \cup {<<<<OVW, "a">>, <<"+">>>>}

DeleteBlocks ==
    {<<<<DEL>> \o p>> : p \in {<<"a">>, <<"d", "a">>, <<"d">>, <<"..", "a">>, <<"k", "a">>}}
        \cup {<<<<DEL, "a">>, <<"+", "a">>>>}

UpdateBlocks ==
    {<<<<UPD, "a">>>> \o h : h \in HunkBodies}
        \cup {<<<<UPD, "a">>, <<MOVE>> \o m, AT2, <<"-", "a">>, <<"+", "b">>>> :
                 m \in MovePaths}
        \cup {<<<<UPD, "a">>, <<MOVE, "d", "a">>, AT2, <<"-", "x">>>>,
              <<<<UPD, "a">>, <<MOVE, "d", "a">>, AT2, <<"-", "a">>, <<"+", "b">>,
                AT2, <<"-", "x">>>>,
              <<<<UPD, "a">>, <<MOVE, "d", "a">>, AT2, <<"-", "x">>,
                AT2, <<"-", "b">>>>}
        \cup {<<<<UPD>> \o p, AT2, <<"-", "a">>, <<"+", "b">>>> :
                 p \in {<<"d", "a">>, <<"d">>, <<"/", "o", "a">>, <<"k", "a">>}}

StrayBlocks == {<<JunkLine>>, <<<<MOVE, "a">>>>}

Blocks == AddBlocks \cup OverwriteBlocks \cup DeleteBlocks \cup UpdateBlocks
              \cup StrayBlocks

\* the report apply_patch returns: the status line it opens with
EndStatus(r, ops, warns) ==
    IF r = "strict" THEN (IF ops = <<>> THEN "error" ELSE "applied")
    ELSE IF warns # <<>> THEN "warnings"
    ELSE IF ops # <<>> THEN "applied"
    ELSE "no_changes"

\* a call that enters the loop whatever the first line is
PatchCallSkippingEnvelope(kind) ==
    /\ pc = "idle"
    /\ pc' = IF kind = "empty" THEN "idle" ELSE "ops"
    /\ last' = IF kind = "begin"
               THEN StepOf("begin", Result("ok", "", World(fs, touched), 1), <<>>)
               ELSE [StepOf("begin", Result("error", kind, World(fs, touched), 0), <<>>)
                        EXCEPT !.report = "error"]
    /\ applied' = <<>>
    /\ warnings' = <<>>
    /\ pending' = <<>>
    /\ UNCHANGED <<rev, fs, touched, passes, dq, xq, cq, conv>>

\* apply_patch(patch) up to its loop: kind is "empty" (not a string, or blank),
\* "nobegin" (the first line is not the begin marker) or "begin"
PatchCall(kind) ==
    /\ pc = "idle"
    /\ pc' = IF kind = "begin" THEN "ops" ELSE "idle"
    /\ last' = IF kind = "begin"
               THEN StepOf("begin", Result("ok", "", World(fs, touched), 1), <<>>)
               ELSE [StepOf("begin", Result("error", kind, World(fs, touched), 0), <<>>)
                        EXCEPT !.report = "error"]
    /\ applied' = <<>>
    /\ warnings' = <<>>
    /\ pending' = <<>>
    /\ UNCHANGED <<rev, fs, touched, passes, dq, xq, cq, conv>>

\* one pass of the loop over the lines that start at the current line
Pass(lines) ==
    LET Step(r, op, has_move) ==
            /\ fs' = r.w.fs
            /\ touched' = r.w.touched
            /\ passes' = passes + 1
            /\ pc' = IF r.outcome = "ok" THEN "ops" ELSE "idle"
            /\ pending' = IF r.outcome = "ok"
                          THEN Slice(lines, r.i - 1, Len(lines)) ELSE <<>>
            /\ applied' = IF r.outcome = "ok" THEN applied \o r.summ ELSE applied
            /\ warnings' = IF r.outcome = "ok" THEN warnings \o r.warn
                           ELSE warnings
            /\ last' = [StepOf(IF op = "" THEN "stray" ELSE op, r, Tail(lines[1]))
                           EXCEPT !.report = IF r.outcome = "ok" THEN ""
                                             ELSE r.outcome,
                                  !.has_move = has_move,
                                  !.move = IF has_move THEN Tail(lines[2])
                                           ELSE <<>>]
            /\ UNCHANGED <<rev, dq, xq, cq, conv>>
    IN  Step(LoopPass(rev, World(fs, touched), lines), HeaderOp(rev, lines[1]),
             HeaderOp(rev, lines[1]) = "update" /\ MoveLine(rev, lines))

\* the document goes on with the lines of one more block; a block that starts
\* with a line that is no operation header can only come first, for anywhere
\* else the operation before it would have read on into it
PatchOp(block) ==
    /\ pc = "ops"
    /\ pending = <<>>
    /\ passes < MaxPasses
    /\ last.op = "begin" \/ block \notin StrayBlocks
    /\ Pass(block)

\* the finished operation stopped before the end of its block
PatchRest ==
    /\ pc = "ops"
    /\ pending # <<>>
    /\ Pass(pending)

\* a way out of the loop that does not look for the end marker
PatchEndUnchecked(has_end) ==
    /\ pc = "ops"
    /\ pending = <<>>
    /\ pc' = "idle"
    /\ last' = [StepOf("end", Result(IF TRUE /\ EndStatus(rev, applied, warnings) # "error"
                                     THEN "ok" ELSE "error",
                                     IF FALSE THEN "no_end"
                                     ELSE IF EndStatus(rev, applied, warnings) = "error"
                                     THEN "no_ops" ELSE "",
                                     World(fs, touched), 0),
                       IF has_end THEN <<END>> ELSE <<>>)
                   EXCEPT !.report = IF TRUE THEN EndStatus(rev, applied, warnings)
                                     ELSE "error",
                          !.summ = IF TRUE /\ EndStatus(rev, applied, warnings) # "error"
                                   THEN applied ELSE <<>>,
                          !.warn = IF TRUE THEN warnings ELSE <<>>]
    /\ UNCHANGED <<rev, fs, touched, pending, passes, applied, warnings, dq, xq, cq, conv>>

\* a way out of the loop that takes back what the operations did when the
\* end marker is missing
PatchEndRestoringTheTree(has_end) ==
    /\ pc = "ops"
    /\ pending = <<>>
    /\ pc' = "idle"
    /\ fs' = IF has_end THEN fs ELSE FsInit
    /\ touched' = IF has_end THEN touched ELSE {}
    /\ last' = [StepOf("end", Result(IF has_end /\ EndStatus(rev, applied, warnings) # "error"
                                     THEN "ok" ELSE "error",
                                     IF ~has_end THEN "no_end"
                                     ELSE IF EndStatus(rev, applied, warnings) = "error"
                                     THEN "no_ops" ELSE "",
                                     World(fs, touched), 0),
                       IF has_end THEN <<END>> ELSE <<>>)
                   EXCEPT !.report = IF has_end THEN EndStatus(rev, applied, warnings)
                                     ELSE "error",
                          !.summ = IF has_end /\ EndStatus(rev, applied, warnings) # "error"
                                   THEN applied ELSE <<>>,
                          !.warn = IF has_end THEN warnings ELSE <<>>]
    /\ UNCHANGED <<rev, pending, passes, applied, warnings, dq, xq, cq, conv>>

\* the loop is left: at the end marker (has_end) or at the end of the document
PatchEnd(has_end) ==
    /\ pc = "ops"
    /\ pending = <<>>
    /\ pc' = "idle"
    /\ last' = [StepOf("end", Result(IF has_end /\ EndStatus(rev, applied, warnings) # "error"
                                     THEN "ok" ELSE "error",
                                     IF ~has_end THEN "no_end"
                                     ELSE IF EndStatus(rev, applied, warnings) = "error"
                                     THEN "no_ops" ELSE "",
                                     World(fs, touched), 0),
                       IF has_end THEN <<END>> ELSE <<>>)
                   EXCEPT !.report = IF has_end THEN EndStatus(rev, applied, warnings)
                                     ELSE "error",
                          !.summ = IF has_end /\ EndStatus(rev, applied, warnings) # "error"
                                   THEN applied ELSE <<>>,
                          !.warn = IF has_end THEN warnings ELSE <<>>]
    /\ UNCHANGED <<rev, fs, touched, pending, passes, applied, warnings, dq, xq, cq, conv>>

PatchNext ==
    \/ \E kind \in {"empty", "nobegin", "begin"} : PatchCall(kind)
    \/ \E block \in Blocks : PatchOp(block)
    \/ PatchRest
    \/ \E has_end \in BOOLEAN : PatchEnd(has_end)

PatchInit ==
    /\ rev \in Revisions
    /\ PatchIdle
    /\ dq = DqInit
    /\ xq = XqInit
    /\ cq = CqInit
    /\ conv = ConvInit

SpecPatch == PatchInit /\ [][PatchNext]_vars

----------------------------------------------------------------------------
(* Properties of apply_patch *)

FileOps == {"add", "delete", "overwrite", "update"}

\* the step is a pass of the loop
IsPass == passes' = passes + 1

\* C1: after any sequence of apply_patch calls, every location the engine
\* created, wrote, deleted or renamed lies inside the working root, and
\* nothing outside the working root differs from what it was at the start.
C1_MutationsInsideWorkingRoot ==
    /\ \A loc \in touched : Inside(loc)
    /\ \A loc \in Locs : ~Inside(loc) => fs[loc] = FsInit[loc]

\* reached: files have been mutated, and an operation whose path goes through
\* the link out of the working root has just been refused
C1_Witness ==
    /\ touched # {}
    /\ last.op \in FileOps
    /\ last.path = <<"k", "a">>
    /\ last.outcome = "error"

\* a path the guard has to refuse: absolute, beginning with a traversal
\* segment, or with a ".." component anywhere
Rejectable(p) ==
    /\ p # <<>>
    /\ \/ Head(p) = "/"
       \/ Head(p) = ".."
       \/ (Len(p) >= 2 /\ p[1] = "." /\ p[2] = "..")
       \/ \E j \in 1..Len(p) : p[j] = ".."

GuardInputs ==
    SeqsUpTo({"/", "..", ".", "a"}, 2)
        \cup {<<".", "..", "a">>, <<"a", "..", "a">>, <<"a", "a", "..">>}

\* C2: _safe_rel_path raises for every path that is absolute, begins with a
\* traversal segment or has a ".." component; an operation whose header path
\* or Move to path is refused ends in an error and leaves the file tree
\* exactly as it was before the operation.
C2_RejectedPathsMutateNothing ==
    [][ /\ \A p \in GuardInputs : Rejectable(p) => ~SafeRelPath(fs, p).ok
        /\ IsPass =>
              /\ (last'.op \in FileOps /\ Rejectable(last'.path))
                    => (last'.outcome = "error" /\ last'.err = "bad_path")
              /\ (last'.has_move /\ Rejectable(last'.move)) => last'.outcome = "error"
              /\ last'.err \in {"bad_path", "bad_move_path"}
                    => (fs' = fs /\ touched' = touched) ]_vars

\* reached: an operation of a document was refused for its path after an
\* earlier operation of the same document had been applied
C2_Witness ==
    /\ last.outcome = "error"
    /\ last.err \in {"bad_path", "bad_move_path"}
    /\ Rejectable(last.path) \/ Rejectable(last.move)
    /\ applied # <<>>
    /\ touched # {}

OccursAt(buf, needle, s) ==
    /\ s >= 0
    /\ s + Len(needle) <= Len(buf)
    /\ \A j \in 1..Len(needle) : buf[s + j] = needle[j]

Occurs(buf, needle) == \E s \in 0..Len(buf) : OccursAt(buf, needle, s)

FirstAt(buf, needle, s) ==
    /\ OccursAt(buf, needle, s)
    /\ \A t \in 0..(s - 1) : ~OccursAt(buf, needle, t)

\* one applied or skipped hunk t of revision r, as the claim describes it
HunkReplacesFirstWindow(r, t) ==
    LET relaxed_hay  == RStripAll(t.buf)
        relaxed_need == RStripAll(t.before)
        lb == Len(t.before)
        la == Len(t.after)
    IN  /\ Occurs(t.buf, t.before) => FirstAt(t.buf, t.before, t.idx)
        /\ (~Occurs(t.buf, t.before) /\ r = "lenient" /\ Occurs(relaxed_hay, relaxed_need))
              => FirstAt(relaxed_hay, relaxed_need, t.idx)
        /\ (~Occurs(t.buf, t.before)
               /\ (r = "strict" \/ ~Occurs(relaxed_hay, relaxed_need)))
              => (t.idx = -1 /\ t.out = t.buf)
        /\ t.idx # -1 =>
              /\ Len(t.out) = Len(t.buf) - lb + la
              /\ \A j \in 1..t.idx : t.out[j] = t.buf[j]
              /\ \A j \in 1..la : t.out[t.idx + j] = t.after[j]
              /\ \A j \in (t.idx + lb + 1)..Len(t.buf) : t.out[j - lb + la] = t.buf[j]

\* C4: in the strict and lenient revisions a hunk replaces, with its
\* after-sequence, the window at the first index where its before-sequence
\* occurs exactly; in the lenient revision, when there is no exact occurrence,
\* the first index that matches after right-trimming both sides; all lines
\* outside the window stay as they were.
C4_HunkReplacesFirstOccurrence ==
    (rev \in {"strict", "lenient"} /\ last.op = "update")
        => \A j \in 1..Len(last.trace) : HunkReplacesFirstWindow(rev, last.trace[j])

\* reached: a hunk was applied whose before-sequence occurs in the buffer a
\* second time, further down
C4_Witness ==
    /\ rev \in {"strict", "lenient"}
    /\ last.op = "update"
    /\ last.outcome = "ok"
    /\ \E j \in 1..Len(last.trace) :
          LET t == last.trace[j]
          IN  /\ t.idx # -1
              /\ t.before # <<>>
              /\ \E s \in (t.idx + 1)..Len(t.buf) : OccursAt(t.buf, t.before, s)

\* C5: the hunks of an Update are applied in order, each searched in the
\* buffer the hunks before it left (the first in the lines of the file), and
\* the text written is that of the buffer after the last hunk.
C5_HunksRunOnProgressiveBuffer ==
    [][ (IsPass /\ rev \in {"strict", "lenient"} /\ last'.op = "update"
               /\ last'.trace # <<>>)
            => LET tr == last'.trace
               IN  /\ tr[1].buf = ReadLines(fs, last'.loc)
                   /\ \A j \in 2..Len(tr) : tr[j].buf = tr[j - 1].out
                   /\ (last'.outcome = "ok" /\ AnyApplied(tr))
                         => /\ fs'[last'.at].kind = "file"
                            /\ fs'[last'.at].text = FileText(tr[Len(tr)].out) ]_vars

\* reached: an Update was written whose second hunk matched lines that only
\* the first hunk had put into the buffer
C5_Witness ==
    /\ rev \in {"strict", "lenient"}
    /\ last.op = "update"
    /\ last.outcome = "ok"
    /\ Len(last.trace) >= 2
    /\ last.trace[2].idx # -1
    /\ ~Occurs(last.trace[1].buf, last.trace[2].before)

\* the number of lines read_text().splitlines() gives, 0 for no file
LineCount(tree, loc) ==
    IF loc \in Locs /\ tree[loc].kind = "file" THEN Len(SplitLines(tree[loc].text))
    ELSE 0

\* C7: for every applied Add, Overwrite, Update or Delete the reported net
\* (added - removed) is the number of lines the target has when re-read after
\* the operation (0 after a Delete) minus the number it had before (0 when it
\* did not exist).
C7_ReportedNetIsLineCountChange ==
    [][ (IsPass /\ last'.outcome = "ok" /\ last'.summ # <<>>)
            => last'.summ[1].net =
                  (IF last'.op = "delete" THEN 0 ELSE LineCount(fs', last'.at))
                      - LineCount(fs, last'.loc) ]_vars

----------------------------------------------------------------------------
(* execute_tool as a state machine: one call per step, from either loop or *)
(* directly                                                                *)

ToolNames == {"run", "cache", "apply_patch", "exec", "python", "shell", "nope"}

\* the keyword sets of the argument objects a caller passes
ArgumentObjects ==
    {{}, {"patch"}, {"kind", "code"}, {"kind", "code", "timeout"}, {"code"},
     {"command", "timeout"}, {"action", "cache_id"},
     {"action", "cache_id", "mode"}, {"patch", "tool_name"}}

ExecCall(via, tool_name, kwargs, beh) ==
    /\ xq' = CallRecord(via, rev, tool_name, kwargs, beh)
    /\ UNCHANGED <<rev, patchVars, dq, cq, conv>>

\* cli.py calls the executor it imports
CliCall ==
    /\ rev = Executor("cli")
    /\ \E t \in ToolNames, a \in ArgumentObjects, b \in HandlerBehaviours :
          ExecCall("cli", t, a, b)

\* main.py calls the executor it imports
MainCall ==
    /\ rev = Executor("main")
    /\ \E t \in ToolNames, a \in ArgumentObjects, b \in HandlerBehaviours :
          ExecCall("main", t, a, b)

\* any other caller of the class
DirectCall ==
    \E t \in ToolNames, a \in ArgumentObjects, b \in HandlerBehaviours :
        ExecCall("direct", t, a, b)

ExecNext == CliCall \/ MainCall \/ DirectCall

ExecInit ==
    /\ rev \in Revisions
    /\ PatchIdle
    /\ dq = DqInit
    /\ xq = XqInit
    /\ cq = CqInit
    /\ conv = ConvInit

SpecExec == ExecInit /\ [][ExecNext]_vars

\* C8: execute_tool never raises to its caller and always returns a report
\* of the {model text, display text} shape, whatever the tool name, the
\* arguments and the handler do.
C8_ExecuteToolAlwaysReturnsPairReport ==
    xq.kind = "call" =>
        /\ xq.result.kind = "returned"
        /\ xq.result.shape = "pair"

\* C9: every tool name a conversation loop advertises in tools_definition is
\* registered in the executor the loop dispatches to: a call of execute_tool
\* with an advertised name never comes back as "Tool ... not found".
C9_AdvertisedToolsAreRegistered ==
    (/\ xq.kind = "call"
     /\ xq.via \in FrontEnds
     /\ xq.name \in Advertised(xq.via)
     /\ xq.result.kind = "returned")
        => xq.result.class # "not_found"

----------------------------------------------------------------------------
(* The conversation loop of main.py and cli.py: prompt, stream one model   *)
(* response collecting its tool calls, then either return to the prompt or *)
(* execute the calls in order and stream again                             *)

MaxResponses == 2
MaxCalls == 2

\* the arguments string of a streamed call: no JSON, or an object with
\* these keys
BadJson == [json |-> "bad", keys |-> {}]
Object(keys) == [json |-> "object", keys |-> keys]

\* the calls a model response may propose
LoopCalls ==
    {[name |-> "apply_patch", args |-> Object({"patch"})],
     [name |-> "python", args |-> Object({"code"})],
     [name |-> "apply_patch", args |-> BadJson],
     [name |-> "apply_patch", args |-> Object({"patch", "tool_name"})]}

CallIds(calls) == [j \in 1..Len(calls) |-> calls[j].id]

Message(role, ids, interrupted) ==
    [role |-> role, ids |-> ids, interrupted |-> interrupted]

\* "if not tool_calls_in_progress or was_interrupted: break"
ReturnsToPromptIgnoringInterrupt(tool_calls_in_progress, was_interrupted) ==
    tool_calls_in_progress = <<>>

ReturnsToPrompt(tool_calls_in_progress, was_interrupted) ==
    tool_calls_in_progress = <<>> \/ was_interrupted

\* "for tc in tool_calls_in_progress" has run through: k is the position of
\* the next call to execute
ToolLoopDoneEarly(calls, k) == k > 1

ToolLoopDone(calls, k) == k > Len(calls)

\* a new model response starts streaming
StartResponse(c) ==
    [c EXCEPT !.pc = "stream", !.n = @ + 1, !.calls = <<>>, !.k = 0,
              !.results = <<>>]

\* prompt_user returned: "exit" or end of input leaves the loop, any other
\* text is appended to the history and a response is streamed.  (Ctrl+C at
\* the prompt and /export change nothing of this state.)
PromptUser(input) ==
    /\ conv.pc = "prompt"
    /\ IF input = "exit"
       THEN conv' = [conv EXCEPT !.pc = "exited"]
       ELSE /\ conv.n < MaxResponses
            /\ conv' = StartResponse(
                  [conv EXCEPT !.history =
                        Append(@, Message("user", <<>>, FALSE))])
    /\ UNCHANGED <<rev, patchVars, dq, xq, cq>>

\* a chunk of the stream opens the next tool call of the response
StreamToolCall(call) ==
    /\ conv.pc = "stream"
    /\ Len(conv.calls) < MaxCalls
    /\ conv' = [conv EXCEPT !.calls =
            Append(@, [id |-> <<conv.n, Len(conv.calls) + 1>>,
                       name |-> call.name, args |-> call.args])]
    /\ UNCHANGED <<rev, patchVars, dq, xq, cq>>

\* the stream ended, by itself or by Ctrl+C: the assistant message with the
\* collected calls goes to the history, then the loop returns to the prompt
\* or goes on to execute the calls
AfterStream(was_interrupted) ==
    LET tcs == conv.calls
        c1 == [conv EXCEPT
                 !.history = Append(@, Message("assistant", CallIds(tcs),
                                               was_interrupted)),
                 !.interrupted_ids =
                     IF was_interrupted THEN @ \cup Range(CallIds(tcs))
                     ELSE @]
    IN  IF ReturnsToPrompt(tcs, was_interrupted)
        THEN [c1 EXCEPT !.pc = "prompt"]
        ELSE [c1 EXCEPT !.pc = "tools", !.k = 1, !.results = <<>>]

StreamCompleted ==
    /\ conv.pc = "stream"
    /\ conv' = AfterStream(FALSE)
    /\ UNCHANGED <<rev, patchVars, dq, xq, cq>>

StreamInterrupted ==
    /\ conv.pc = "stream"
    /\ conv' = AfterStream(TRUE)
    /\ UNCHANGED <<rev, patchVars, dq, xq, cq>>

\* one iteration of "for tc in tool_calls_in_progress": arguments that do
\* not decode give an error result without a call; otherwise execute_tool is
\* called, and what it returns, or an Exception it raises, becomes the
\* result; a BaseException leaves the loop and the program
ExecuteToolCall(beh) ==
    /\ conv.pc = "tools"
    /\ ~ToolLoopDone(conv.calls, conv.k)
    /\ conv.k <= Len(conv.calls)
    /\ LET tc == conv.calls[conv.k]
           kwargs == IF tc.args.json = "object" THEN tc.args.keys ELSE {}
           rec == CallRecord(conv.front, rev, tc.name, kwargs, beh)
           res == rec.result
       IN  IF tc.args.json = "bad"
           THEN /\ conv' = [conv EXCEPT
                      !.results = Append(@, [id |-> tc.id,
                                             content |-> "decode_error"]),
                      !.k = @ + 1]
                /\ xq' = xq
           ELSE /\ xq' = rec
                /\ conv' =
                     IF res.kind = "raised" /\ res.exc = "KeyboardInterrupt"
                     THEN [conv EXCEPT !.pc = "aborted",
                                       !.dispatched = Append(@, tc.id)]
                     ELSE [conv EXCEPT
                             !.dispatched = Append(@, tc.id),
                             !.results = Append(@,
                                 [id |-> tc.id,
                                  content |-> IF res.kind = "raised"
                                              THEN "executing_error"
                                              ELSE res.class]),
                             !.k = @ + 1]
    /\ UNCHANGED <<rev, patchVars, dq, cq>>

\* a loop that feeds back the results of the dispatched calls only
FeedResultsOfDispatchedCalls ==
    /\ conv.pc = "tools"
    /\ ToolLoopDone(conv.calls, conv.k)
    /\ conv.n < MaxResponses
    /\ conv' = StartResponse(
          [conv EXCEPT !.history =
                @ \o [j \in 1..Len(SelectSeq(conv.results,
                                     LAMBDA res : res.content # "decode_error")) |->
                        Message("tool",
                                <<SelectSeq(conv.results,
                                    LAMBDA res : res.content # "decode_error")[j].id>>,
                                FALSE)]])
    /\ UNCHANGED <<rev, patchVars, dq, xq, cq>>

\* "conversation_history.extend(tool_results)", and the model reacts
FeedResults ==
    /\ conv.pc = "tools"
    /\ ToolLoopDone(conv.calls, conv.k)
    /\ conv.n < MaxResponses
    /\ conv' = StartResponse(
          [conv EXCEPT !.history =
                @ \o [j \in 1..Len(conv.results) |->
                        Message("tool", <<conv.results[j].id>>, FALSE)]])
    /\ UNCHANGED <<rev, patchVars, dq, xq, cq>>

LoopNext ==
    \/ \E input \in {"text", "exit"} : PromptUser(input)
    \/ \E call \in LoopCalls : StreamToolCall(call)
    \/ StreamCompleted
    \/ StreamInterrupted
    \/ \E beh \in HandlerBehaviours : ExecuteToolCall(beh)
    \/ FeedResults

LoopInit ==
    /\ \E front \in FrontEnds :
          /\ rev = Executor(front)
          /\ conv = [ConvInit EXCEPT !.front = front]
    /\ PatchIdle
    /\ dq = DqInit
    /\ xq = XqInit
    /\ cq = CqInit

SpecLoop == LoopInit /\ [][LoopNext]_vars

\* C10: a tool call collected in a response that the user interrupted is
\* never dispatched to execute_tool, in that turn or any later one, and the
\* interruption returns control to the prompt.
C10_InterruptedCallsNeverDispatched ==
    /\ conv.interrupted_ids \cap Range(conv.dispatched) = {}
    /\ (conv.history[Len(conv.history)].interrupted
            => conv.pc \in {"prompt", "exited"})

\* calls were streamed in a response that was interrupted, and a later
\* response had its calls dispatched
C10_Witness ==
    \E i \in conv.interrupted_ids :
        \E j \in 1..Len(conv.dispatched) : conv.dispatched[j][1] > i[1]

\* the tool messages the history holds right after its p-th message
ToolIdsAfter(history, p, count) ==
    [j \in 1..Min2(count, Len(history) - p) |->
        IF history[p + j].role = "tool" THEN history[p + j].ids ELSE <<>>]

\* a < b in the order (response, index) of the calls
CallBefore(a, b) == a[1] < b[1] \/ (a[1] = b[1] /\ a[2] < b[2])

\* C11: within one model turn the calls are executed one at a time in
\* ascending index order, each at most once; the results are collected and
\* appended to the history in that order, and the next response is requested
\* only when the result of every call of the turn is in the history.
C11_CallsRunInOrderOneAtATime ==
    /\ \A a, b \in 1..Len(conv.dispatched) :
          a < b => CallBefore(conv.dispatched[a], conv.dispatched[b])
    /\ conv.pc = "tools" =>
          /\ Len(conv.results) = conv.k - 1
          /\ \A j \in 1..Len(conv.results) :
                conv.results[j].id = conv.calls[j].id
          /\ \A j \in 1..Len(conv.dispatched) :
                conv.dispatched[j][1] = conv.n => conv.dispatched[j][2] < conv.k
    /\ \A p \in 1..Len(conv.history) :
          (/\ conv.history[p].role = "assistant"
           /\ conv.history[p].ids # <<>>
           /\ ~conv.history[p].interrupted)
             => \/ p = Len(conv.history) /\ conv.pc \in {"tools", "aborted"}
                \/ ToolIdsAfter(conv.history, p, Len(conv.history[p].ids))
                      = [j \in 1..Len(conv.history[p].ids) |->
                            <<conv.history[p].ids[j]>>]

\* a turn with two calls was executed, both were dispatched, and the next
\* response is streaming after their results went to the history
C11_Witness ==
    /\ conv.pc = "stream"
    /\ \E p \in 1..Len(conv.history) :
          /\ conv.history[p].role = "assistant"
          /\ Len(conv.history[p].ids) = 2
          /\ ~conv.history[p].interrupted
          /\ \A j \in 1..2 : conv.history[p].ids[j] \in Range(conv.dispatched)


----------------------------------------------------------------------------
(* The output cache of the strict revision (src/tools.py)                  *)
(*                                                                         *)
(* A command's output is thousands of characters long, so a text is kept   *)
(* here as what the cache code reads of it: its lines (what splitlines()   *)
(* gives), whether the last line is terminated by a newline, and its      *)
(* length in characters.  A line is a stem and a number ("out 7").         *)

MAX_TOOL_OUTPUT_CHARS == 5000
DEFAULT_PAGE_SIZE == 200
MAX_PAGE_SIZE == 1000
PREVIEW_LINES == 10

Ln(s, i) == [s |-> s, i |-> i]
EmptyLine == Ln("", 0)
Text(lines, nl, chars) == [lines |-> lines, nl |-> nl, chars |-> chars]
EmptyText == Text(<<>>, FALSE, 0)
\* a one-line text without a newline, `chars` characters wide
OneLine(s, i, chars) == Text(<<Ln(s, i)>>, FALSE, chars)
\* n lines "s 1" .. "s n", each w characters wide and newline-terminated:
\* what a command printing n lines leaves on a stream
Numbered(s, n, w) ==
    IF n = 0 THEN EmptyText
    ELSE Text([i \in 1..n |-> Ln(s, i)], TRUE, n * (w + 1))

\* len(str(n))
RECURSIVE DecLen(_)
DecLen(n) ==
    IF n < 0 THEN 1 + DecLen(0 - n)
    ELSE IF n < 10 THEN 1 ELSE 1 + DecLen(n \div 10)

\* t + "\n"
AppendNL(t) ==
    IF t.lines = <<>> \/ t.nl
    THEN Text(Append(t.lines, EmptyLine), TRUE, t.chars + 1)
    ELSE Text(t.lines, TRUE, t.chars + 1)

\* a + b, for a empty or ending in a newline (b then starts a new line)
Concat(a, b) ==
    Text(a.lines \o b.lines, IF b.lines = <<>> THEN a.nl ELSE b.nl,
         a.chars + b.chars)

\* t.rstrip("\n"): every trailing newline goes, one character each
RECURSIVE StripNL(_)
StripNL(t) ==
    IF t.lines = <<>> THEN t
    ELSE IF t.nl THEN StripNL(Text(t.lines, FALSE, t.chars - 1))
    ELSE IF t.lines[Len(t.lines)] # EmptyLine THEN t
    ELSE IF Len(t.lines) = 1 THEN EmptyText
    ELSE StripNL(Text(SubSeq(t.lines, 1, Len(t.lines) - 1), TRUE, t.chars))

\* "\n\n".join(parts)
RECURSIVE JoinBlank(_)
JoinBlank(parts) ==
    IF Len(parts) = 1 THEN parts[1]
    ELSE Concat(AppendNL(AppendNL(parts[1])), JoinBlank(Tail(parts)))

\* "[stdout]\n" + stream.rstrip("\n")
Section(tag, stream) == Concat(AppendNL(OneLine(tag, 0, Len(tag))), StripNL(stream))

ComposeCachePayload(stdout, stderr, returncode) ==
    JoinBlank(
        <<OneLine("[exit_code]", returncode, 12 + DecLen(returncode))>>
        \o (IF stdout # EmptyText THEN <<Section("[stdout]", stdout)>> ELSE <<>>)
        \o (IF stderr # EmptyText THEN <<Section("[stderr]", stderr)>> ELSE <<>>))


\* an optional integer argument: None, or a number
None == <<>>
Some(n) == <<n>>

\* a page count that leaves out a last page that is not full
PageCountOfFullPages(total_lines, page_size) ==
    IF total_lines # 0 THEN Max2(1, total_lines \div page_size) ELSE 1

\* (a + b - 1) // b, and 1 for nothing to show
PageCount(total_lines, page_size) ==
    IF total_lines # 0 THEN (total_lines + page_size - 1) \div page_size ELSE 1

\* max(1, min(page_size, MAX_PAGE_SIZE))
ClampPageSize(page_size) == Max2(1, Min2(page_size, MAX_PAGE_SIZE))

\* the page after the two clamps into [0, total_pages - 1]
ClampPage(page, total_pages) ==
    IF (IF page < 0 THEN 0 ELSE page) >= total_pages
    THEN Max2(0, total_pages - 1)
    ELSE (IF page < 0 THEN 0 ELSE page)

\* a page whose block starts one line late
PageOfSkippingFirst(lines, page, page_size, total_pages) ==
    [shape |-> "page",
     display_page |-> page + 1,
     total_pages |-> total_pages,
     first |-> page * page_size,
     last |-> Max2(Min2(page * page_size + page_size, Len(lines)) - 1,
                   page * page_size),
     of |-> Max2(Len(lines) - 1, 0),
     body |-> SubSeq(lines, page * page_size + 2,
                     Min2(page * page_size + page_size, Len(lines))),
     prev |-> page > 0,
     next |-> page < total_pages - 1]

\* What _render_cache_page puts in its text: the page header's numbers, the
\* lines of the code block, and which navigation hints follow.
PageOf(lines, page, page_size, total_pages) ==
    [shape |-> "page",
     display_page |-> page + 1,
     total_pages |-> total_pages,
     first |-> page * page_size,
     last |-> Max2(Min2(page * page_size + page_size, Len(lines)) - 1,
                   page * page_size),
     of |-> Max2(Len(lines) - 1, 0),
     body |-> SubSeq(lines, page * page_size + 1,
                     Min2(page * page_size + page_size, Len(lines))),
     prev |-> page > 0,
     next |-> page < total_pages - 1]

RenderCachePage(cache, cache_id, page, page_size) ==
    LET Clamped(lines, ps) ==
            PageOf(lines, ClampPage(page, PageCount(Len(lines), ps)), ps,
                   PageCount(Len(lines), ps))
    IN  Clamped(cache[cache_id].lines, ClampPageSize(page_size))

CacheInfoText(cache, cache_id) ==
    [shape |-> "info",
     total_lines |-> Len(cache[cache_id].lines),
     total_chars |-> cache[cache_id].chars,
     total_pages |-> PageCount(Len(cache[cache_id].lines), DEFAULT_PAGE_SIZE),
     preview |-> SubSeq(cache[cache_id].lines, 1,
                        Min2(PREVIEW_LINES, Len(cache[cache_id].lines)))]

\* what a handler leaves behind: the cache and the text it returns
Handled(cache, result) == [cache |-> cache, result |-> result]

\* a drop that answers without deleting
WithoutNothing(cache, cache_id) == cache
\* del cache[cache_id]
Without(cache, cache_id) == [k \in DOMAIN cache \ {cache_id} |-> cache[k]]

CacheTool(cache, action, cache_id, page, page_size) ==
    IF cache_id \notin DOMAIN cache
    THEN Handled(cache, [shape |-> "error", what |-> "not_found"])
    ELSE IF action \notin {"view", "info", "drop"}
    THEN Handled(cache, [shape |-> "error", what |-> "action"])
    ELSE IF action = "drop"
    THEN Handled(Without(cache, cache_id), [shape |-> "dropped"])
    ELSE IF action = "info"
    THEN Handled(cache, CacheInfoText(cache, cache_id))
    ELSE Handled(cache,
            RenderCachePage(cache, cache_id,
                IF page = None THEN 0 ELSE page[1],
                ClampPageSize(IF page_size = None THEN DEFAULT_PAGE_SIZE
                              ELSE page_size[1])))

\* What subprocess.run can do: return the finished process, raise
\* TimeoutExpired, or raise anything else (the program could not be started).
\* the limits of the formatted views: the same in the three revisions but
\* for the line width of the strict one
MAX_TOOL_OUTPUT_LINES == 25
MaxLineLength(r) == IF r = "strict" THEN 150 ELSE 1000

\* The streams of the model have lines of one width: the width of a line of
\* a text, from its length and its line breaks.
LineWidth(t) ==
    IF t.lines = <<>> THEN 0
    ELSE (t.chars - (IF t.nl THEN Len(t.lines) ELSE Len(t.lines) - 1))
             \div Len(t.lines)

\* s + "\n", a line of markdown
MdLine(s) == Text(<<Ln(s, 0)>>, TRUE, Len(s) + 1)

\* _truncate_output(output, max_lines, max_line_length, trunc_note_template):
\* the first max_lines lines, each cut to max_line_length characters and
\* marked, and the note with the number of lines left out; the template is
\* written with {} for {omitted_lines}
TruncateOutput(output, max_lines, max_line_length, template) ==
    LET Cut(lines, w, omitted) ==
            Text([n \in 1..Len(lines) |->
                     IF w > max_line_length
                     THEN [s |-> lines[n].s, i |-> lines[n].i,
                           cut |-> " ... (line truncated) ..."]
                     ELSE lines[n]]
                   \o (IF omitted > 0 THEN <<Ln(template, omitted)>> ELSE <<>>),
                 FALSE,
                 Len(lines) * (IF w > max_line_length
                               THEN max_line_length + Len(" ... (line truncated) ...")
                               ELSE w)
                   + Max2(Len(lines) - 1, 0)
                   + (IF omitted > 0
                      THEN 1 + Len(template) - 2 + DecLen(omitted) ELSE 0))
    IN  Cut(SubSeq(output.lines, 1, Min2(Len(output.lines), max_lines)),
            LineWidth(output),
            Max2(Len(output.lines) - max_lines, 0))

\* the note of _truncate_output when no template is given
DefaultNote == "... (output truncated, {} more lines hidden) ..."

\* a line of the model that is a run of i backquotes and nothing else
Ticks(i) == Ln("ticks", i)

\* max(len(m.group(0)) for m in re.finditer of three or more backquotes)
MaxTicks(lines) ==
    LET Longest(runs) ==
            IF runs = {} THEN 0 ELSE CHOOSE r \in runs : \A q \in runs : q <= r
    IN  Longest({lines[n].i : n \in {m \in 1..Len(lines) :
                                        lines[m].s = "ticks" /\ lines[m].i >= 3}})

\* a fence line: n backquotes and, on the opening one, the lexer
Fence(lang, n) == Text(<<Ln("fence", n)>>, TRUE, n + Len(lang) + 1)

\* _md_codeblock(body, language) for an allowed lexer: the fence is one
\* backquote longer than the longest run of them in the body, and three at
\* least
MdCodeblock(body, lang) ==
    Concat(Concat(Fence(lang, Max2(3, MaxTicks(body.lines) + 1)),
                  IF body.lines # <<>> /\ body.nl THEN body ELSE AppendNL(body)),
           Fence("", Max2(3, MaxTicks(body.lines) + 1)))

\* a header that does not look at the exit code
HeaderIgnoringExitCode(returncode) == MdLine("## Command Successful")

\* "## Command Successful\n" or "## Command FAILED (Exit Code: n)\n"
Header(returncode) ==
    IF returncode = 0 THEN MdLine("## Command Successful")
    ELSE Text(<<Ln("## Command FAILED (Exit Code: n)", returncode)>>, TRUE,
              Len("## Command FAILED (Exit Code: )") + DecLen(returncode) + 1)

\* "### STDOUT\n" and the code block of a stream, nothing for an empty one
StreamSection(title, shown, lang) ==
    IF shown = EmptyText THEN EmptyText
    ELSE Concat(MdLine(title), MdCodeblock(shown, lang))

\* the sections after the header: first and second stream, or the sentence
\* that there was no output
Sections(header, first, second) ==
    Concat(header,
           IF first = EmptyText /\ second = EmptyText
           THEN MdLine("The command produced no output.")
           ELSE Concat(first, second))

\* _format_exec_output(result, language) of the strict revision: STDOUT
\* first for exit code 0, STDERR first otherwise
FormatExecOutput(outcome, lang) ==
    LET Shown(stream) ==
            TruncateOutput(StripNL(stream), MAX_TOOL_OUTPUT_LINES,
                           MaxLineLength("strict"), DefaultNote)
        Out == StreamSection("### STDOUT", Shown(outcome.stdout), lang)
        Err == StreamSection("### STDERR", Shown(outcome.stderr), "text")
    IN  IF outcome.returncode = 0
        THEN Sections(Header(outcome.returncode), Out, Err)
        ELSE Sections(Header(outcome.returncode), Err, Out)

Completed(stdout, stderr, returncode) ==
    [how |-> "completed", stdout |-> stdout, stderr |-> stderr,
     returncode |-> returncode]
TimedOut == [how |-> "timeout"]
SpawnFailed == [how |-> "failed"]

\* (kind or "").lower(); None is written ""
Lower(kind) ==
    IF kind = "Shell" THEN "shell" ELSE IF kind = "PYTHON" THEN "python" ELSE kind

\* a run that caches whatever it ran
SmallNever(raw_payload) == FALSE
\* len(raw_payload) <= MAX_TOOL_OUTPUT_CHARS
Small(raw_payload) == raw_payload.chars <= MAX_TOOL_OUTPUT_CHARS

\* run(kind, code, timeout); `outcome` is what subprocess.run did with the
\* code, cache_id the string uuid4 gives when the output is cached
Run(cache, kind, outcome, cache_id) ==
    IF Lower(kind) \notin {"python", "shell"}
    THEN Handled(cache, [shape |-> "error", what |-> "kind"])
    ELSE IF outcome.how = "timeout"
    THEN Handled(cache, [shape |-> "error", what |-> "timeout"])
    ELSE IF outcome.how = "failed"
    THEN Handled(cache, [shape |-> "error", what |-> "failed"])
    ELSE LET Put(raw_payload) ==
                 IF Small(raw_payload)
                 THEN Handled(cache,
                        [shape |-> "exec_output", ok |-> outcome.returncode = 0,
                         header |-> Header(outcome.returncode),
                         model |-> [form |-> "sections",
                                    text |-> FormatExecOutput(outcome,
                                       IF Lower(kind) = "python" THEN "python"
                                       ELSE "bash")]])
                 ELSE LET Stored(c) ==
                              Handled(c,
                                [shape |-> "cached",
                                 ok |-> outcome.returncode = 0,
                                 header |-> Header(outcome.returncode),
                                 cache_id |-> cache_id,
                                 first_page |->
                                     RenderCachePage(c, cache_id, 0,
                                                     DEFAULT_PAGE_SIZE)])
                      IN  Stored([k \in DOMAIN cache \cup {cache_id} |->
                                    IF k = cache_id THEN raw_payload
                                    ELSE cache[k]])
         IN  Put(ComposeCachePayload(outcome.stdout, outcome.stderr,
                                     outcome.returncode))


(* The cache as a state machine: a run or a cache call, and the caller     *)
(* taking the text                                                         *)

MaxIds == 2

\* the strings uuid4 can give, and with them a string it never gives
CacheIds == 1..MaxIds
AskedIds == 0..MaxIds
\* the id uuid4 gives once the model's ids are used up; no entry is made of it
SpareId == MaxIds + 1

\* streams: three short lines; the longest stdout that is not cached and the
\* shortest that is; more lines than the largest page
ShortOut == Numbered("out", 3, 4)
AtThreshold == Numbered("out", 21, 236)
JustOver == Numbered("out", 38, 130)
LongOut == Numbered("out", 1001, 4)
ShortErr == Numbered("err", 2, 3)

Outcomes ==
    {Completed(ShortOut, EmptyText, 0), Completed(EmptyText, EmptyText, 1),
     Completed(AtThreshold, EmptyText, 0), Completed(JustOver, EmptyText, 0),
     Completed(LongOut, ShortErr, 1), TimedOut, SpawnFailed}
Kinds == {"python", "Shell", "ruby", ""}
CacheActions == {"view", "info", "drop", "peek"}
Pages == {None, Some(0 - 1), Some(0), Some(1), Some(2000)}
PageSizes == {None, Some(0), Some(40), Some(1000), Some(1001)}

\* a run; uuid4's string is one it has not given before
CacheRun(kind, outcome, cache_id) ==
    /\ cq.pc = "idle"
    /\ cache_id \notin cq.issued
    /\ LET Ends(h) ==
               /\ cache_id \in DOMAIN h.cache => cache_id \in CacheIds
               /\ cq' = [pc |-> "returned", cache |-> h.cache,
                         issued |-> cq.issued \cup DOMAIN h.cache,
                         dropped |-> cq.dropped,
                         reported |-> cq.reported,
                         call |-> [tool |-> "run", kind |-> kind,
                                   outcome |-> outcome],
                         result |-> h.result]
       IN  Ends(Run(cq.cache, kind, outcome, cache_id))
    /\ UNCHANGED <<rev, patchVars, dq, xq, conv>>

\* a cache call; `reported` keeps the totals the views of an id have stated
CacheCall(action, cache_id, page, page_size) ==
    /\ cq.pc = "idle"
    /\ LET Ends(h) ==
               cq' = [pc |-> "returned", cache |-> h.cache,
                      issued |-> cq.issued,
                      dropped |-> IF h.result.shape = "dropped"
                                  THEN cq.dropped \cup {cache_id}
                                  ELSE cq.dropped,
                      reported |-> IF h.result.shape = "page"
                                   THEN cq.reported
                                        \cup {<<cache_id, h.result.of>>}
                                   ELSE cq.reported,
                      call |-> [tool |-> "cache", action |-> action,
                                cache_id |-> cache_id, page |-> page,
                                page_size |-> page_size],
                      result |-> h.result]
       IN  Ends(CacheTool(cq.cache, action, cache_id, page, page_size))
    /\ UNCHANGED <<rev, patchVars, dq, xq, conv>>

\* the caller has used the text
CacheReturn ==
    /\ cq.pc = "returned"
    /\ cq' = [cq EXCEPT !.pc = "idle", !.call = CqInit.call,
                        !.result = CqInit.result]
    /\ UNCHANGED <<rev, patchVars, dq, xq, conv>>

CacheNext ==
    \/ \E kind \in Kinds, outcome \in Outcomes,
          cache_id \in CacheIds \cup {SpareId} : CacheRun(kind, outcome, cache_id)
    \/ \E action \in CacheActions, cache_id \in AskedIds,
          page \in Pages, page_size \in PageSizes :
          CacheCall(action, cache_id, page, page_size)
    \/ CacheReturn

CacheInit ==
    /\ rev = "strict"
    /\ PatchIdle
    /\ dq = DqInit
    /\ xq = XqInit
    /\ cq = CqInit
    /\ conv = ConvInit

SpecCache == CacheInit /\ [][CacheNext]_vars


(* Properties of the cache *)

\* the page and the page size a view asks for, with the defaults for None
AskedPage(call) == IF call.page = None THEN 0 ELSE call.page[1]
AskedSize(call) == IF call.page_size = None THEN DEFAULT_PAGE_SIZE ELSE call.page_size[1]

\* a view of a live entry has returned
ViewReturned ==
    /\ cq.pc = "returned"
    /\ cq.call.tool = "cache"
    /\ cq.call.action = "view"
    /\ cq.call.cache_id \in DOMAIN cq.cache

\* lines s .. s + min(c, T - s) - 1 of the payload, numbered from 0
Window(lines, s, c) == SubSeq(lines, s + 1, s + Min2(c, Len(lines) - s))

\* the window [s, s + c) of the entry's lines is what the view shows
ShowsWindow(lines, s, c) ==
    /\ Len(cq.result.body) = Min2(c, Len(lines) - s)
    /\ cq.result.body = Window(lines, s, c)

\* every view of one id has stated the same total
TotalsAgree == \A r1 \in cq.reported, r2 \in cq.reported : r1[1] = r2[1] => r1[2] = r2[2]

\* C12 as stated: for a live entry of T lines, a view with count
\* c = page_size >= 1 and in-range start s = page * page_size returns exactly
\* lines s .. s + min(c, T - s) - 1, and repeated views state the same total.
C12_ViewReturnsRequestedWindow ==
    /\ ViewReturned /\ AskedSize(cq.call) >= 1
       /\ AskedPage(cq.call) >= 0
       /\ AskedPage(cq.call) * AskedSize(cq.call)
            < Len(cq.cache[cq.call.cache_id].lines)
       => ShowsWindow(cq.cache[cq.call.cache_id].lines,
                      AskedPage(cq.call) * AskedSize(cq.call),
                      AskedSize(cq.call))
    /\ TotalsAgree

\* C12, amended: the same for every count 1 <= c <= MAX_PAGE_SIZE; a larger
\* count is served as MAX_PAGE_SIZE.
C12_ViewReturnsWindowUpToMaxPageSize ==
    /\ ViewReturned /\ AskedSize(cq.call) >= 1
       /\ AskedSize(cq.call) <= MAX_PAGE_SIZE
       /\ AskedPage(cq.call) >= 0
       /\ AskedPage(cq.call) * AskedSize(cq.call)
            < Len(cq.cache[cq.call.cache_id].lines)
       => ShowsWindow(cq.cache[cq.call.cache_id].lines,
                      AskedPage(cq.call) * AskedSize(cq.call),
                      AskedSize(cq.call))
    /\ ViewReturned /\ AskedSize(cq.call) > MAX_PAGE_SIZE
       /\ AskedPage(cq.call) >= 0
       /\ AskedPage(cq.call) * MAX_PAGE_SIZE
            < Len(cq.cache[cq.call.cache_id].lines)
       => ShowsWindow(cq.cache[cq.call.cache_id].lines,
                      AskedPage(cq.call) * MAX_PAGE_SIZE, MAX_PAGE_SIZE)
    /\ TotalsAgree

\* a second view of an entry has returned its last, shorter page: the
\* window is cut by the end of the payload and a total was stated before
C12_Witness ==
    /\ ViewReturned
    /\ AskedSize(cq.call) \in 1..MAX_PAGE_SIZE
    /\ AskedPage(cq.call) > 0
    /\ AskedPage(cq.call) * AskedSize(cq.call)
         < Len(cq.cache[cq.call.cache_id].lines)
    /\ Len(cq.result.body) > 0
    /\ Len(cq.result.body) < AskedSize(cq.call)
    /\ cq.result.body[1] =
         cq.cache[cq.call.cache_id].lines[AskedPage(cq.call) * AskedSize(cq.call) + 1]
    /\ Cardinality(cq.reported) >= 2


\* the step is a cache call returning
CacheCallStep ==
    /\ cq.pc = "idle"
    /\ cq'.pc = "returned"
    /\ cq'.call.tool = "cache"

NotFound == [shape |-> "error", what |-> "not_found"]

\* C13: once drop(id) has succeeded, id is in no later cache, every later
\* view, info or drop of it answers "not found" and changes nothing, and the
\* drop itself takes away that entry only.
C13_DroppedIdIsNeverServedAgain ==
    /\ [](cq.dropped \cap DOMAIN cq.cache = {})
    /\ [][CacheCallStep /\ cq'.call.cache_id \in cq.dropped
            => cq'.result = NotFound /\ cq'.cache = cq.cache]_vars
    /\ [][CacheCallStep /\ cq'.result.shape = "dropped"
            => /\ cq'.call.cache_id \in DOMAIN cq.cache
               /\ DOMAIN cq'.cache = DOMAIN cq.cache \ {cq'.call.cache_id}
               /\ \A k \in DOMAIN cq'.cache : cq'.cache[k] = cq.cache[k]]_vars

\* a later view of a dropped id was answered "not found" while another
\* entry is still there
C13_Witness ==
    /\ cq.pc = "returned"
    /\ cq.call.tool = "cache"
    /\ cq.call.action = "view"
    /\ cq.call.cache_id \in cq.dropped
    /\ cq.result = NotFound
    /\ DOMAIN cq.cache # {}


\* the step is a run returning
RunStep ==
    /\ cq.pc = "idle"
    /\ cq'.pc = "returned"
    /\ cq'.call.tool = "run"

\* the raw payload of a run call, for a process that finished
RawPayload(call) ==
    ComposeCachePayload(call.outcome.stdout, call.outcome.stderr,
                        call.outcome.returncode)

\* the call ran a process to its end and the payload is over the threshold
Oversized(call) ==
    /\ Lower(call.kind) \in {"python", "shell"}
    /\ call.outcome.how = "completed"
    /\ RawPayload(call).chars > MAX_TOOL_OUTPUT_CHARS

\* C14: a run adds an entry exactly when its raw payload exceeds
\* MAX_TOOL_OUTPUT_CHARS (then one entry, holding that payload); no other
\* step adds one; a stored payload never changes; and an entry goes away
\* only in a drop of its own id.
C14_EntriesComeFromOversizedRunsAndGoByDrop ==
    /\ [][RunStep /\ Oversized(cq'.call)
            => \E id \in DOMAIN cq'.cache \ DOMAIN cq.cache :
                  /\ DOMAIN cq'.cache = DOMAIN cq.cache \cup {id}
                  /\ cq'.cache[id] = RawPayload(cq'.call)]_vars
    /\ [][~(RunStep /\ Oversized(cq'.call))
            => DOMAIN cq'.cache \subseteq DOMAIN cq.cache]_vars
    /\ [][\A id \in DOMAIN cq.cache :
             IF id \in DOMAIN cq'.cache
             THEN cq'.cache[id] = cq.cache[id]
             ELSE /\ CacheCallStep
                  /\ cq'.call.action = "drop"
                  /\ cq'.call.cache_id = id]_vars

\* a run whose payload is exactly MAX_TOOL_OUTPUT_CHARS long has returned
\* its output directly, and the entry of an earlier run is still there
C14_Witness ==
    /\ cq.pc = "returned"
    /\ cq.call.tool = "run"
    /\ cq.result.shape = "exec_output"
    /\ RawPayload(cq.call).chars = MAX_TOOL_OUTPUT_CHARS
    /\ DOMAIN cq.cache # {}


\* the page a view asks for is none of the entry's pages, at the page size
\* the view is served with
OutOfRange(call, lines) ==
    \/ AskedPage(call) < 0
    \/ AskedPage(call)
         >= PageCount(Len(lines), ClampPageSize(AskedSize(call)))

\* C15: a view whose page lies outside the entry's extent is answered with
\* an error and returns no lines.
C15_OutOfRangeViewIsAnError ==
    ViewReturned /\ OutOfRange(cq.call, cq.cache[cq.call.cache_id].lines)
        => cq.result.shape = "error"


\* a run has just stored its output
RunCached ==
    /\ cq.pc = "returned"
    /\ cq.call.tool = "run"
    /\ cq.result.shape = "cached"

\* what a view of page 0 with page size c, and info, answer for the entry
ViewFromStart(cache_id, c) ==
    CacheTool(cq.cache, "view", cache_id, Some(0), Some(c)).result
InfoOf(cache_id) == CacheTool(cq.cache, "info", cache_id, None, None).result

\* the view of the first c lines shows the stream's first min(c, N) lines
\* and states N lines in all
ShowsStream(page, stream, c) ==
    /\ page.body = SubSeq(stream, 1, Min2(c, Len(stream)))
    /\ page.of = Len(stream)

\* C16: after a run whose stdout has N lines was cached, a view with start 0
\* and count c returns the first min(c, N) lines of that stdout, and the
\* view and info both state N as the total.
C16_CacheAddressesStdoutLines ==
    RunCached
        => /\ \A c \in 1..3 :
                ShowsStream(ViewFromStart(cq.result.cache_id, c),
                            cq.call.outcome.stdout.lines, c)
           /\ ShowsStream(cq.result.first_page, cq.call.outcome.stdout.lines,
                          DEFAULT_PAGE_SIZE)
           /\ InfoOf(cq.result.cache_id).total_lines
                = Len(cq.call.outcome.stdout.lines)


----------------------------------------------------------------------------
(* Properties of Update, Delete and Add *)

\* hunk_reports of the lenient Update: one entry per hunk searched, in order
LenientHunkReports(trace) ==
    [j \in 1..Len(trace) |->
        IF trace[j].idx = -1
        THEN [mark |-> "not_applied", before |-> Len(trace[j].before),
              after |-> Len(trace[j].after)]
        ELSE [mark |-> "applied", start |-> trace[j].idx,
              end |-> trace[j].idx + Len(trace[j].before),
              before |-> Len(trace[j].before), after |-> Len(trace[j].after)]]
\* the hunk lines of the "### Updated" block of the lenient report: the block
\* is written once some hunk was applied and the file was written and read back
UpdatedBlockHunks(step) ==
    IF step.op = "update" /\ step.outcome = "ok" /\ step.summ # <<>>
    THEN LenientHunkReports(step.trace)
    ELSE <<>>

\* the lenient Update of the last pass searched hunk j and did not find it
HunkNotFound(j) ==
    /\ rev = "lenient"
    /\ last.op = "update"
    /\ j \in 1..Len(last.trace)
    /\ last.trace[j].idx = -1

MoveWithFailedHunk ==
    /\ pc = "ops"
    /\ passes' = passes + 1
    /\ last'.op = "update"
    /\ last'.has_move
    /\ \E j \in 1..Len(last'.trace) : last'.trace[j].idx = -1

\* C18: when a hunk of an Update with "Move to" fails, the file is not
\* moved: it is still at its path, and nothing is put at the destination.
C18_NoMoveUnlessAllHunksSucceed ==
    [][MoveWithFailedHunk
         => /\ Exists(fs', last'.loc)
            /\ \A loc \in Locs : loc # last'.loc => fs'[loc] = fs[loc]]_vars


\* the step is a pass over an operation `op` whose path stays inside the
\* working root; last'.loc is the target
PassOver(op) ==
    /\ pc = "ops"
    /\ passes' = passes + 1
    /\ last'.op = op
    /\ last'.loc # <<>>

\* the target is no regular file: nothing is there, or a directory
NoRegularFile(tree, loc) == ~Exists(tree, loc) \/ IsDir(tree, loc)

\* the line count the Delete reports: "(-n)" in the strict and lenient
\* revisions, "-n" of "(+0/-n, net ...)" in the packaged one
ReportedLineCount(step) == step.summ[1].removed

\* C19: an Update or Delete whose target is missing or a directory returns
\* an error and changes nothing; a Delete of an existing regular file
\* removes that file and no other, and reports the number of lines it had.
C19_MissingTargetIsAnErrorAndDeleteReportsLineCount ==
    /\ [][(PassOver("update") \/ PassOver("delete"))
            /\ NoRegularFile(fs, last'.loc)
            => /\ last'.outcome = "error"
               /\ pc' = "idle"
               /\ fs' = fs
               /\ touched' = touched]_vars
    /\ [][PassOver("delete") /\ ~NoRegularFile(fs, last'.loc)
            => /\ last'.outcome = "ok"
               /\ fs' = [fs EXCEPT ![last'.loc] = NoNode]
               /\ Len(last'.summ) = 1
               /\ last'.summ[1].verb = "Deleted"
               /\ ReportedLineCount(last') = Len(ReadLines(fs, last'.loc))]_vars


\* C20: an Add File whose target already exists returns an error and leaves
\* the tree, and so the file, as it was.
C20_AddOnExistingPathIsRejected ==
    [][PassOver("add") /\ Exists(fs, last'.loc)
         => /\ last'.outcome = "error"
            /\ fs' = fs
            /\ touched' = touched]_vars


\* the step is a pass over an Add or Overwrite block
PassOverPlusBlock ==
    /\ pc = "ops"
    /\ passes' = passes + 1
    /\ last'.op \in {"add", "overwrite"}

\* the line is an operation header or the end marker
HeaderOrEnd(l) == IsEnd(l) \/ (l # <<>> /\ l[1] \in {ADD, DEL, UPD, OVW})

\* C21: an Add or Overwrite that is carried out has read '+' lines up to an
\* operation header, the end marker or the end of the document; a block
\* with any other line ends the call with an error and its target is
\* neither created nor changed.
C21_PlusBlockIsReadWholeBeforeTheWrite ==
    [][PassOverPlusBlock
         => /\ last'.outcome = "ok"
                 => pending' = <<>> \/ HeaderOrEnd(pending'[1])
            /\ last'.err = "expects_plus"
                 => /\ last'.outcome = "error"
                    /\ pc' = "idle"
                    /\ fs' = fs
                    /\ touched' = touched]_vars


\* the last step was a call whose first line is not the begin marker
RejectedAtEnvelope == last.op = "begin" /\ last.err = "nobegin"

LeftWithoutEndMarker == last.op = "end" /\ last.path # <<END>>

PassWithPathError ==
    /\ pc = "ops"
    /\ passes' = passes + 1
    /\ last'.err = "bad_path"

\* C24: an operation whose path fails the path guard is the only one given
\* up: what was applied before it stays applied, the tree is left as it
\* was, and the loop goes on to the operations that follow it.
C24_PathErrorAbortsOnlyItsOperation ==
    [][PassWithPathError
         => /\ fs' = fs /\ touched' = touched
            /\ applied' = applied
            /\ pc' = "ops"]_vars


\* a pass that carries out, right after it was carried out, the same
\* Overwrite again: same target, same '+' lines
SecondOverwrite ==
    /\ pc = "ops"
    /\ passes' = passes + 1
    /\ last.op = "overwrite" /\ last.outcome = "ok"
    /\ last'.op = "overwrite" /\ last'.outcome = "ok"
    /\ last'.loc = last.loc
    /\ last'.content = last.content

\* C25: the second of two equal Overwrite operations leaves the content of
\* the target as the first one left it and reports +0/-0.
C25_OverwriteIsIdempotent ==
    [][SecondOverwrite
         => /\ fs'[last.loc] = fs[last.loc]
            /\ last'.summ[1].added = 0
            /\ last'.summ[1].removed = 0]_vars


----------------------------------------------------------------------------
(* apply_patch in a working directory that has no directory d yet *)

\* the tree of FsInit without the directory w/d
FsBare == [FsInit EXCEPT ![<<"w", "d">>] = NoNode]

TripInit ==
    /\ rev \in Revisions
    /\ fs = FsBare
    /\ touched = {}
    /\ pc = "idle"
    /\ pending = <<>>
    /\ passes = 0
    /\ applied = <<>>
    /\ warnings = <<>>
    /\ last = NoStep
    /\ dq = DqInit
    /\ xq = XqInit
    /\ cq = CqInit
    /\ conv = ConvInit

SpecTrip == TripInit /\ [][PatchNext]_vars

\* the two operations carried out since the start, in the tree prior, are
\* an Add of a path that did not exist and the Delete of the same path, in
\* one document
AddThenDelete(prior) ==
    /\ passes = 2
    /\ Len(applied) = 2
    /\ applied[1].verb = "Added"
    /\ applied[2].verb = "Deleted"
    /\ applied[1].path = applied[2].path
    /\ ~Exists(prior, CWD \o applied[1].path)

\* C26: after an Add of a path that did not exist and the Delete of the
\* same path the tree is the one before the Add: the path does not exist,
\* and no other file or directory was added, changed or removed.
C26_AddThenDeleteRestoresTheTree ==
    AddThenDelete(FsBare) => fs = FsBare

\* a pass that carries out an Add of a path at which nothing was
PassOverAddOfNewPath ==
    /\ pc = "ops"
    /\ passes' = passes + 1
    /\ last'.op = "add" /\ last'.outcome = "ok"
    /\ ~Exists(fs, last'.loc)

\* the text of the given lines, a newline after each of them
EachTerminated(content_lines) ==
    Flatten([n \in 1..Len(content_lines) |-> content_lines[n] \o <<NL>>])

\* C27: an Add of n '+' lines at a path that does not exist leaves a file
\* of exactly these n lines, a newline after each, and its summary entry is
\* "Added <path> (+n/-0, net +n)".
C27_AddWritesItsLinesAndReportsThem ==
    [][PassOverAddOfNewPath
         => /\ fs'[last'.loc].kind = "file"
            /\ fs'[last'.loc].text = EachTerminated(last'.content)
            /\ last'.summ = <<Summary("Added", last'.loc, Len(last'.content), 0,
                                      "full")>>]_vars


----------------------------------------------------------------------------
(* exec of the lenient and the packaged revision: the view for the model   *)
(* and the view for the screen                                             *)

MODEL_MAX_CHARS == 25000
MODEL_MAX_OUTPUT_LINES == 120
MODEL_STRICT_OUTPUT_LINES == 40
MODEL_MAX_LINE_LENGTH == 400
DISPLAY_MAX_LINES == 25

\* timeout: int = 30
DefaultTimeout == 30

\* L.strip().startswith of three backquotes: a fence, or a line of the
\* output that begins with them
IsFence(l) == l.s = "fence" \/ (l.s = "ticks" /\ l.i >= 3)

\* s.startswith("#"): the headings the handlers write
IsHeading(l) ==
    l.s \in {"## Error", "## Command Successful", "## Command FAILED (Exit Code: n)",
             "### STDOUT", "### STDERR"}

\* sum(1 for L in trimmed_lines if L.strip().startswith(fence))
RECURSIVE FenceCount(_)
FenceCount(ls) ==
    IF ls = <<>> THEN 0
    ELSE (IF IsFence(Head(ls)) THEN 1 ELSE 0) + FenceCount(Tail(ls))

\* _count_visible of the lenient revision: the lines that are no fence, not
\* blank and no heading outside a code block
RECURSIVE CountVisible(_, _)
CountVisible(ls, in_code) ==
    IF ls = <<>> THEN 0
    ELSE IF IsFence(Head(ls)) THEN CountVisible(Tail(ls), ~in_code)
    ELSE IF Head(ls) = EmptyLine THEN CountVisible(Tail(ls), in_code)
    ELSE IF ~in_code /\ IsHeading(Head(ls)) THEN CountVisible(Tail(ls), in_code)
    ELSE 1 + CountVisible(Tail(ls), in_code)

\* _display_truncate(md, max_lines), on the lines md.splitlines() gives: md
\* as it is when it has no more than max_lines lines; else its first
\* max_lines lines, a closing fence when the cut is inside a code block, a
\* blank line and the note
DisplayTruncate(r, lines, max_lines) ==
    LET Noted(trimmed) ==
            trimmed \o
            <<EmptyLine,
              IF r = "packaged"
              THEN Ln("... {} lines hidden ...", Max2(Len(lines) - max_lines, 0))
              ELSE [s |-> "... (display truncated: showing {} of {} content lines, {} hidden) ...",
                    i |-> Max2(CountVisible(lines, FALSE)
                                 - CountVisible(trimmed, FALSE), 0),
                    shown |-> CountVisible(trimmed, FALSE),
                    total |-> CountVisible(lines, FALSE)]>>
        Closed(trimmed) ==
            IF FenceCount(trimmed) % 2 = 1 THEN Append(trimmed, Ln("fence", 3))
            ELSE trimmed
    IN  IF Len(lines) <= max_lines THEN lines
        ELSE Noted(Closed(SubSeq(lines, 1, max_lines)))

\* str(e) of the exception: one line
ExcText == OneLine("str(e)", 0, 40)

\* the three error messages of exec; the first has no final newline
KindMsg ==
    Concat(MdLine("## Error"),
           OneLine("'kind' must be 'python' or 'shell'.", 0, 35))
TimeoutMsg ==
    Concat(Concat(MdLine("## Error"),
                  Text(<<Ln("Execution timed out after {}s.", DefaultTimeout)>>, TRUE,
                       Len("Execution timed out after s.") + DecLen(DefaultTimeout) + 1)),
           MdCodeblock(ExcText, "text"))
FailedMsg ==
    Concat(Concat(MdLine("## Error"), MdLine("Execution failed:")),
           MdCodeblock(ExcText, "text"))

\* return {"model": msg, "display": _display_truncate(msg)}
ErrorViews(r, what, msg) ==
    [shape |-> "error", what |-> what,
     model |-> [form |-> "msg", text |-> msg],
     display |-> DisplayTruncate(r, msg.lines, DISPLAY_MAX_LINES)]

\* "bash" if kind == "shell" else "python"
Lang(kind) == IF Lower(kind) = "shell" THEN "bash" ELSE "python"

\* a section that is written when the raw stream is not empty
RawSection(title, raw, shown, lang) ==
    IF raw = EmptyText THEN EmptyText
    ELSE Concat(MdLine(title), MdCodeblock(shown, lang))

\* the view that replaces the sections: the header, one block with the
\* first MODEL_MAX_CHARS characters of the payload, and the note with the
\* two numbers it states
Combined(header, payload) ==
    [form |-> "combined", header |-> header,
     kept |-> Min2(payload.chars, MODEL_MAX_CHARS),
     stated_kept |-> MODEL_MAX_CHARS,
     stated_total |-> payload.chars]

\* the model view of the lenient exec (src/src/tools.py): sections when the
\* raw payload is within MODEL_MAX_CHARS
LenientModelView(kind, outcome) ==
    LET View(raw_payload) ==
            IF raw_payload.chars <= MODEL_MAX_CHARS
            THEN [form |-> "sections",
                  text |-> Sections(Header(outcome.returncode),
                               RawSection("### STDOUT", outcome.stdout,
                                          StripNL(outcome.stdout), Lang(kind)),
                               RawSection("### STDERR", outcome.stderr,
                                          StripNL(outcome.stderr), "text"))]
            ELSE Combined(Header(outcome.returncode), raw_payload)
    IN  View(ComposeCachePayload(outcome.stdout, outcome.stderr,
                                 outcome.returncode))

\* the words _analyze_shell_command knows, as sequences of characters
CMD_HEAD == <<"h", "e", "a", "d">>
CMD_LS == <<"l", "s">>
CMD_FIND == <<"f", "i", "n", "d">>
CMD_TREE == <<"t", "r", "e", "e">>
CMD_DU == <<"d", "u">>
CMD_GREP == <<"g", "r", "e", "p">>
CMD_EGREP == <<"e", "g", "r", "e", "p">>
CMD_FGREP == <<"f", "g", "r", "e", "p">>
CMD_RG == <<"r", "g">>
CMD_RIPGREP == <<"r", "i", "p", "g", "r", "e", "p">>
CMD_CAT == <<"c", "a", "t">>
CMD_BAT == <<"b", "a", "t">>
CMD_LESS == <<"l", "e", "s", "s">>
LONG_RECURSIVE == <<"-", "-", "r", "e", "c", "u", "r", "s", "i", "v", "e">>
LONG_ALL == <<"-", "-", "a", "l", "l">>

\* _analyze_shell_command(command): the traits it sets to True.  A command is
\* the sequence of its characters; the commands of the model hold no quote
\* and no backslash, so shlex.split gives the words between the blanks.
RECURSIVE SplitAt(_, _)
SplitAt(s, seps) ==
    IF \A i \in 1..Len(s) : s[i] \notin seps THEN <<s>>
    ELSE LET i == CHOOSE i \in 1..Len(s) :
                      s[i] \in seps /\ \A j \in 1..(i - 1) : s[j] \notin seps
         IN  <<SubSeq(s, 1, i - 1)>> \o SplitAt(SubSeq(s, i + 1, Len(s)), seps)

ShlexSplit(part) == SelectSeq(SplitAt(part, {" "}), LAMBDA w : w # <<>>)

\* "for opt in tokens[1:]: if opt == '--': break"
UpToDashes(opts) ==
    IF \A i \in 1..Len(opts) : opts[i] # <<"-", "-">> THEN opts
    ELSE SubSeq(opts, 1,
                (CHOOSE i \in 1..Len(opts) :
                    opts[i] = <<"-", "-">>
                    /\ \A j \in 1..(i - 1) : opts[j] # <<"-", "-">>) - 1)

\* "c in opt[1:]"
InTail(c, opt) == \E i \in 2..Len(opt) : opt[i] = c

\* the traits one part of a pipeline sets
PartTraits(tokens) ==
    LET cmd == tokens[1]
        opts == Tail(tokens)
        Some_(Test(_)) == \E i \in 1..Len(UpToDashes(opts)) : Test(UpToDashes(opts)[i])
        LsRecursive(opt) ==
            IF StartsWith(opt, <<"-", "-">>)
            THEN opt = LONG_RECURSIVE \/ StartsWith(opt, LONG_RECURSIVE \o <<"=">>)
            ELSE StartsWith(opt, <<"-">>) /\ InTail("R", opt)
        GrepRecursive(opt) ==
            IF StartsWith(opt, <<"-", "-">>)
            THEN StartsWith(opt, LONG_RECURSIVE)
            ELSE StartsWith(opt, <<"-">>)
                 /\ (InTail("r", opt) \/ InTail("R", opt) \/ InTail("d", opt))
    IN  (IF cmd = CMD_HEAD THEN {"has_head"} ELSE {})
        \cup
        (IF cmd = CMD_LS
         THEN (IF Some_(LsRecursive) THEN {"recursive_ls"} ELSE {})
              \cup (IF \E i \in 1..Len(opts) :
                          opts[i] \in {<<"-", "a">>, <<"-", "A">>, LONG_ALL}
                    THEN {"bulk_listing"} ELSE {})
         ELSE IF cmd \in {CMD_FIND, CMD_TREE, CMD_DU} THEN {"bulk_listing"}
         ELSE IF cmd \in {CMD_GREP, CMD_EGREP, CMD_FGREP}
         THEN {"broad_search"}
              \cup (IF Some_(GrepRecursive) THEN {"recursive_search"} ELSE {})
         ELSE IF cmd \in {CMD_RG, CMD_RIPGREP}
         THEN {"broad_search", "recursive_search"}
         ELSE IF cmd \in {CMD_CAT, CMD_BAT, CMD_LESS} THEN {"bulk_listing"}
         ELSE {})

AnalyzeShellCommand(command) ==
    LET Pipeline(segment) == SplitAt(segment, {"|"})
        Of(segments) ==
            UNION {PartTraits(ShlexSplit(Pipeline(segments[k])[j])) :
                     <<k, j>> \in {<<k, j>> \in (1..Len(segments)) \X (1..Len(command) + 1) :
                                     /\ j <= Len(Pipeline(segments[k]))
                                     /\ ShlexSplit(Pipeline(segments[k])[j]) # <<>>}}
    IN  IF command = <<>> THEN {} ELSE Of(SplitAt(command, {";", "&", NL}))

\* the line cap of stdout in the model view of the packaged exec
ModelStdoutLinesAlwaysMax(traits) == MODEL_MAX_OUTPUT_LINES

ModelStdoutLines(traits) ==
    IF traits \cap {"recursive_ls", "recursive_search"} # {}
    THEN MODEL_STRICT_OUTPUT_LINES
    ELSE MODEL_MAX_OUTPUT_LINES

\* the model view of the packaged exec (src/src/harmony_cli/tools.py): the
\* streams cut to the model's line limits, in sections when these are
\* within MODEL_MAX_CHARS
PackagedModelView(kind, outcome, traits) ==
    LET View(out, err) ==
            LET Pick(sections) ==
                    IF sections.chars > MODEL_MAX_CHARS
                    THEN Combined(Header(outcome.returncode),
                                  ComposeCachePayload(out, err, outcome.returncode))
                    ELSE [form |-> "sections", text |-> sections]
            IN  Pick(Sections(Header(outcome.returncode),
                              StreamSection("### STDOUT", out, Lang(kind)),
                              StreamSection("### STDERR", err, "text")))
    IN  View(TruncateOutput(StripNL(outcome.stdout), ModelStdoutLines(traits),
                            MODEL_MAX_LINE_LENGTH, DefaultNote),
             TruncateOutput(StripNL(outcome.stderr), MODEL_MAX_OUTPUT_LINES,
                            MODEL_MAX_LINE_LENGTH, DefaultNote))

\* the notes the packaged exec adds to the display; the third note of the
\* source asks for a key that command_traits always has and is never added
DisplayNotes(traits) ==
    Concat(IF "recursive_ls" \in traits
           THEN MdLine("_Recursive directory listings are trimmed_") ELSE EmptyText,
           IF "bulk_listing" \in traits
           THEN MdLine("_Large file listings are abbreviated_") ELSE EmptyText)

\* "".join(display_sections): each stream cut to MAX_TOOL_OUTPUT_LINES
DisplaySections(r, kind, outcome, traits) ==
    LET Shown(stream) ==
            TruncateOutput(StripNL(stream), MAX_TOOL_OUTPUT_LINES, MaxLineLength(r),
                           IF r = "packaged" THEN ". {} lines hidden ."
                           ELSE DefaultNote)
    IN  Concat(Sections(Header(outcome.returncode),
                        RawSection("### STDOUT", outcome.stdout,
                                   Shown(outcome.stdout), Lang(kind)),
                        RawSection("### STDERR", outcome.stderr,
                                   Shown(outcome.stderr), "text")),
               IF r = "packaged" THEN DisplayNotes(traits) ELSE EmptyText)

\* exec(kind, code, timeout) of revision r; traits is what
\* _analyze_shell_command finds in a shell command
Exec(r, kind, outcome, traits) ==
    IF Lower(kind) \notin {"python", "shell"} THEN ErrorViews(r, "kind", KindMsg)
    ELSE IF outcome.how = "timeout" THEN ErrorViews(r, "timeout", TimeoutMsg)
    ELSE IF outcome.how = "failed" THEN ErrorViews(r, "failed", FailedMsg)
    ELSE [shape |-> "views",
          ok |-> outcome.returncode = 0,
          header |-> Header(outcome.returncode),
          model |-> IF r = "packaged"
                    THEN PackagedModelView(kind, outcome,
                             IF Lower(kind) = "shell" THEN traits ELSE {})
                    ELSE LenientModelView(kind, outcome),
          display |-> DisplayTruncate(r,
                          DisplaySections(r, kind, outcome,
                              IF Lower(kind) = "shell" THEN traits ELSE {}).lines,
                          DISPLAY_MAX_LINES)]

\* streams of 21 and 22 lines: a display of 25 and of 26 lines; a stdout
\* whose sections pass MODEL_MAX_CHARS while its payload does not; one whose
\* payload passes it; lines wider than the model's line limit
\* a line of three backquotes and 30 lines after it, all three wide
TicksThenOut ==
    Text(<<Ticks(3)>> \o [n \in 1..30 |-> Ln("out", n)], TRUE, 31 * 4)

ViewOutcomes ==
    {Completed(ShortOut, EmptyText, 0),
     Completed(EmptyText, ShortErr, 1),
     Completed(EmptyText, EmptyText, 0),
     Completed(Numbered("out", 21, 4), EmptyText, 0),
     Completed(Numbered("out", 22, 4), EmptyText, 0),
     Completed(Numbered("out", 120, 207), EmptyText, 0),
     Completed(Numbered("out", 130, 207), ShortErr, 2),
     Completed(Numbered("out", 3, 450), Numbered("err", 30, 3), 3),
     Completed(TicksThenOut, EmptyText, 0),
     Completed(Numbered("out", 45, 4), EmptyText, 0),
     Completed(Numbered("out", 2, 4), Numbered("err", 125, 3), 1),
     TimedOut, SpawnFailed}
\* shell commands: none; listings that are and are not recursive; searches
\* that are and are not recursive; pipelines and sequences
Commands ==
    { <<>>,   \* (empty)
      <<"l", "s", " ", "-", "l", "a">>,   \* ls -la
      <<"l", "s", " ", "-", "R">>,   \* ls -R
      <<"l", "s", " ", "-", "-", " ", "-", "R">>,   \* ls -- -R
      <<"l", "s", " ", "-", "-", "r", "e", "c", "u", "r", "s", "i", "v", "e", " ", "x">>,   \* ls --recursive x
      <<"c", "a", "t", " ", "x", "|", "g", "r", "e", "p", " ", "-", "r", " ", "a">>,   \* cat x|grep -r a
      <<"g", "r", "e", "p", " ", "a", " ", "x">>,   \* grep a x
      <<"f", "i", "n", "d", " ", ".">>,   \* find .
      <<"c", "d", " ", "x", ";", "r", "g", " ", "a">>,   \* cd x;rg a
      <<"l", "s", " ", "-", "a", "|", "h", "e", "a", "d">> }   \* ls -a|head

\* a call of exec in the lenient or the packaged revision
ViewExec(kind, outcome, code) ==
    /\ rev \in {"lenient", "packaged"}
    /\ cq.pc = "idle"
    /\ cq' = [cq EXCEPT !.pc = "returned",
                        !.call = [tool |-> "exec", kind |-> kind,
                                  outcome |-> outcome, code |-> code,
                                  traits |-> AnalyzeShellCommand(code)],
                        !.result = Exec(rev, kind, outcome,
                                        AnalyzeShellCommand(code))]
    /\ UNCHANGED <<rev, patchVars, dq, xq, conv>>

\* a call of run in the strict revision
ViewRun(kind, outcome, cache_id) ==
    /\ rev = "strict"
    /\ CacheRun(kind, outcome, cache_id)

ViewNext ==
    \/ \E kind \in Kinds, outcome \in ViewOutcomes, code \in Commands :
          ViewExec(kind, outcome, code)
    \/ \E kind \in Kinds, outcome \in ViewOutcomes,
          cache_id \in CacheIds \cup {SpareId} : ViewRun(kind, outcome, cache_id)
    \/ CacheReturn

ViewInit ==
    /\ rev \in Revisions
    /\ PatchIdle
    /\ dq = DqInit
    /\ xq = XqInit
    /\ cq = CqInit
    /\ conv = ConvInit

SpecView == ViewInit /\ [][ViewNext]_vars


----------------------------------------------------------------------------
(* Properties of the execution tool and its two views *)

\* a call of run or exec that got as far as running the child has returned
RanChild ==
    /\ cq.pc = "returned"
    /\ cq.call.tool \in {"run", "exec"}
    /\ Lower(cq.call.kind) \in {"python", "shell"}

\* the output is within the limits of every revision: each stream within
\* the line and width limits and the payload within the caching threshold
UnderBudget(outcome) ==
    /\ Len(outcome.stdout.lines) <= MAX_TOOL_OUTPUT_LINES
    /\ Len(outcome.stderr.lines) <= MAX_TOOL_OUTPUT_LINES
    /\ LineWidth(outcome.stdout) <= MaxLineLength("strict")
    /\ LineWidth(outcome.stderr) <= MaxLineLength("strict")
    /\ ComposeCachePayload(outcome.stdout, outcome.stderr,
                           outcome.returncode).chars <= MAX_TOOL_OUTPUT_CHARS

\* a line a truncation has left in a text: the note, or a line cut short
TruncationMark(l) == l.s = DefaultNote \/ "cut" \in DOMAIN l

\* the line "### STDERR" of a view, 0 when it has none
StderrAt(lines) ==
    IF \E n \in 1..Len(lines) : lines[n].s = "### STDERR"
    THEN CHOOSE n \in 1..Len(lines) : lines[n].s = "### STDERR"
    ELSE 0

\* the view shows the whole stream under "### STDERR", in a code block
ShowsStderr(lines, stderr) ==
    stderr # EmptyText
      => /\ StderrAt(lines) > 0
         /\ SubSeq(lines, StderrAt(lines) + 2,
                   StderrAt(lines) + 1 + Len(stderr.lines)) = stderr.lines

\* C28: a child that ran into the timeout is answered with the timeout
\* error and never with "Execution failed"; a child that could not be
\* started with "Execution failed"; a child that exited with a result whose
\* header says "Command Successful" exactly for exit code 0 and "Command
\* FAILED (Exit Code: n)" with its code n otherwise, and which for an output
\* under budget holds the stderr text and no truncation note.
C28_OutcomeDecidesTheKindOfReport ==
    RanChild =>
      /\ cq.call.outcome.how = "timeout"
           => cq.result.shape = "error" /\ cq.result.what = "timeout"
      /\ cq.call.outcome.how = "failed"
           => cq.result.shape = "error" /\ cq.result.what = "failed"
      /\ cq.call.outcome.how = "completed"
           => /\ cq.result.shape \in {"exec_output", "cached", "views"}
              /\ cq.result.header.lines[1] =
                     (IF cq.call.outcome.returncode = 0
                      THEN Ln("## Command Successful", 0)
                      ELSE Ln("## Command FAILED (Exit Code: n)",
                              cq.call.outcome.returncode))
              /\ UnderBudget(cq.call.outcome)
                   => /\ cq.result.shape \in {"exec_output", "views"}
                      /\ cq.result.model.form = "sections"
                      /\ cq.result.model.text.lines[1] = cq.result.header.lines[1]
                      /\ ShowsStderr(cq.result.model.text.lines,
                                     cq.call.outcome.stderr)
                      /\ \A n \in 1..Len(cq.result.model.text.lines) :
                            ~TruncationMark(cq.result.model.text.lines[n])

\* exit code 1 and two lines on stderr
C28_Witness ==
    /\ RanChild
    /\ cq.call.outcome = Completed(EmptyText, ShortErr, 1)
    /\ cq.result.header.lines[1] = Ln("## Command FAILED (Exit Code: n)", 1)
    /\ ShowsStderr(cq.result.model.text.lines, ShortErr)


\* exec has returned the two views of a child that exited
ExecCompleted ==
    /\ RanChild
    /\ cq.call.tool = "exec"
    /\ cq.call.outcome.how = "completed"

\* C29: a sectioned model view is never longer than MODEL_MAX_CHARS: in its
\* place stands the combined view, whose note states as kept the length of
\* the prefix in its block and as total the length of the payload, the
\* first no greater than the second.
C29_CeilingNoteStatesWhatWasKept ==
    ExecCompleted =>
      /\ cq.result.model.form \in {"sections", "combined"}
      /\ cq.result.model.form = "sections"
           => cq.result.model.text.chars <= MODEL_MAX_CHARS
      /\ cq.result.model.form = "combined"
           => /\ cq.result.model.header = cq.result.header
              /\ cq.result.model.stated_kept = cq.result.model.kept
              /\ cq.result.model.stated_kept <= cq.result.model.stated_total


\* exec has returned, with a result or with an error message
ExecReturned == cq.pc = "returned" /\ cq.call.tool = "exec"

\* the lines of the rendering _display_truncate was given
Rendering ==
    IF cq.result.shape = "error" THEN cq.result.model.text.lines
    ELSE DisplaySections(rev, cq.call.kind, cq.call.outcome,
                         IF Lower(cq.call.kind) = "shell" THEN cq.call.traits
                         ELSE {}).lines

\* C30: the display view has no more than DISPLAY_MAX_LINES lines: a
\* rendering within the limit is returned as it is, a longer one is cut to
\* the limit.
C30_DisplayHasAtMostDisplayMaxLines ==
    ExecReturned =>
      /\ Len(Rendering) <= DISPLAY_MAX_LINES => cq.result.display = Rendering
      /\ Len(cq.result.display) <= DISPLAY_MAX_LINES


\* The fence that is open after the lines, 0 for none: a fence of n
\* backquotes is opened by a line that begins with three or more of them
\* and closed by a line of n or more of them.
RECURSIVE OpenAfter(_, _)
OpenAfter(lines, open) ==
    IF lines = <<>> THEN open
    ELSE IF Head(lines).s \in {"fence", "ticks"} /\ Head(lines).i >= 3
    THEN OpenAfter(Tail(lines),
                   IF open = 0 THEN Head(lines).i
                   ELSE IF Head(lines).i >= open THEN 0 ELSE open)
    ELSE OpenAfter(Tail(lines), open)

\* C31: the display view leaves no code fence open, whatever the output
\* holds, runs of three or more backquotes included.
C31_DisplayLeavesNoFenceOpen ==
    ExecReturned => OpenAfter(cq.result.display, 0) = 0

----------------------------------------------------------------------------
(* Properties of the hunks of an Update *)

\* the lines of a hunk without its "@@" line
HunkBody(h) == IF h # <<>> /\ h[1] = AT2 THEN Tail(h) ELSE h

\* the usual shape of a hunk: context lines, then '-' lines, then '+' lines,
\* then context lines
UsualShape(h) ==
    LET Shaped(body) ==
            /\ body # <<>>
            /\ \A n \in 1..Len(body) : body[n] # <<>>
            /\ \E p \in 0..Len(body), q \in 0..Len(body), r \in 0..Len(body) :
                  /\ p <= q /\ q <= r
                  /\ \A n \in 1..Len(body) :
                        body[n][1] = (IF n <= p THEN " "
                                      ELSE IF n <= q THEN "-"
                                      ELSE IF n <= r THEN "+" ELSE " ")
    IN  Shaped(HunkBody(h))

\* the lines of the hunk that begin with one of the marks, in hunk order,
\* without the mark
MarkedLines(h, marks) ==
    LET Of(sel) == [n \in 1..Len(sel) |-> Tail(sel[n])]
    IN  Of(SelectSeq(HunkBody(h), LAMBDA l : l # <<>> /\ l[1] \in marks))

BeforeSequence(h) == MarkedLines(h, {" ", "-"})
AfterSequence(h)  == MarkedLines(h, {" ", "+"})

\* the step is the pass of the packaged revision over an Update of file a
\* with the one hunk h
PackagedUpdateWith(h) ==
    /\ rev = "packaged"
    /\ PatchOp(<<<<UPD, "a">>>> \o h)

\* C33: in the packaged revision an Update hunk of the usual shape whose
\* before-sequence occurs contiguously in the file is applied by replacing
\* that window with the after-sequence; every other line stays as it was.
C33_PackagedHunkReplacesItsWindow ==
    [][\A h \in HunkBodies :
         UsualShape(h) /\ PackagedUpdateWith(h)
           /\ Occurs(ReadLines(fs, last'.loc), BeforeSequence(h))
         => /\ last'.outcome = "ok"
            /\ \E pos \in 0..Len(ReadLines(fs, last'.loc)) :
                  /\ OccursAt(ReadLines(fs, last'.loc), BeforeSequence(h), pos)
                  /\ ReadLines(fs', last'.loc)
                       = Splice(ReadLines(fs, last'.loc), pos,
                                BeforeSequence(h), AfterSequence(h))]_vars


\* the step is the check for the end marker, and the marker is missing
EndMarkerMissed == last'.op = "end" /\ last'.err = "no_end"

\* the report of the step holds the error and nothing else
OnlyTheError(step) ==
    /\ step.outcome = "error"
    /\ step.report = "error"
    /\ step.summ = <<>>
    /\ step.warn = <<>>

\* C34: the end marker is looked for only after the loop: when it is missing
\* every line of the document has been read by an operation that was
\* carried out, what these operations did to the tree stays done, and the
\* error names none of them; an error of a later operation likewise
\* reports nothing of the operations carried out before it.
C34_EndMarkerIsCheckedAfterTheLoop ==
    [][/\ EndMarkerMissed
            => /\ pc = "ops" /\ pending = <<>>
               /\ fs' = fs /\ touched' = touched /\ applied' = applied
               /\ pc' = "idle"
               /\ OnlyTheError(last')
       /\ IsPass /\ last'.outcome = "error" /\ applied # <<>>
            => /\ fs' = fs /\ touched' = touched
               /\ OnlyTheError(last')]_vars

\* the document ran out after its two operations had both been carried out
\* and had changed the tree
C34_Witness ==
    /\ last.op = "end" /\ last.err = "no_end"
    /\ Len(applied) = 2
    /\ fs # FsInit
    /\ Cardinality(touched) >= 2
    /\ OnlyTheError(last)


\* the step is a pass of the strict revision over an Update with a hunk that
\* is not found in the file or holds a line with an invalid prefix
StrictUpdateWithFailedHunk ==
    /\ rev = "strict"
    /\ PassOver("update")
    /\ \/ last'.err \in {"hunk_not_found", "bad_prefix"}
       \/ \E j \in 1..Len(last'.trace) : last'.trace[j].idx = -1

\* C35: in the strict revision an Update is all-or-nothing for its file: when
\* a hunk is not found or holds a line with an invalid prefix the call
\* returns an error, the file has the content it had and is not renamed;
\* the file is written only after every hunk of the Update was matched.
C35_StrictUpdateIsAllOrNothing ==
    /\ [][StrictUpdateWithFailedHunk
            => /\ last'.outcome = "error"
               /\ pc' = "idle"
               /\ fs' = fs
               /\ touched' = touched]_vars
    /\ [][rev = "strict" /\ PassOver("update") /\ fs' # fs
            => /\ last'.trace # <<>>
               /\ \A j \in 1..Len(last'.trace) : last'.trace[j].idx # -1
               /\ last'.err \notin {"hunk_not_found", "bad_prefix"}]_vars

\* the first hunk of a strict Update with a Move was matched and changed the
\* buffer, the second was not found: the file is where and what it was
C35_Witness ==
    /\ rev = "strict"
    /\ last.op = "update" /\ last.err = "hunk_not_found" /\ last.has_move
    /\ Len(last.trace) = 2
    /\ last.trace[1].idx # -1 /\ last.trace[1].out # last.trace[1].buf
    /\ last.trace[2].idx = -1
    /\ Exists(fs, last.loc)
    /\ ReadLines(fs, last.loc) = last.trace[1].buf


\* the indexes of the buffer at which the before-sequence of the hunk occurs,
\* exactly and after right-trimming both sides
ExactAt(t)   == {s \in 0..Len(t.buf) : OccursAt(t.buf, t.before, s)}
RelaxedAt(t) == {s \in 0..Len(t.buf) :
                    OccursAt(RStripAll(t.buf), RStripAll(t.before), s)}

Least(S) == CHOOSE s \in S : \A u \in S : s <= u

\* the index a scan from 0 of the whole buffer gives: the first exact
\* occurrence, in the lenient revision else the first relaxed one, else -1
ScanFromTop(r, t) ==
    IF ExactAt(t) # {} THEN Least(ExactAt(t))
    ELSE IF r = "lenient" /\ RelaxedAt(t) # {} THEN Least(RelaxedAt(t))
    ELSE -1

\* C36: every hunk search scans the current buffer from index 0, wherever
\* the hunks before it matched: it takes the buffer the hunk before left and
\* finds the first occurrence in the whole of it; a hunk with an empty
\* before-sequence matches at index 0 and its lines go to the top.
C36_EachHunkSearchStartsAtTheTop ==
    (rev \in {"strict", "lenient"} /\ last.op = "update")
        => \A j \in 1..Len(last.trace) :
              /\ j > 1 => last.trace[j].buf = last.trace[j - 1].out
              /\ last.trace[j].idx = ScanFromTop(rev, last.trace[j])
              /\ last.trace[j].before = <<>>
                   => /\ last.trace[j].idx = 0
                      /\ last.trace[j].out
                           = last.trace[j].after \o last.trace[j].buf

\* an Update of three hunks: the second was applied at a lower index than the
\* first, over a line the first had put in; the third has '+' lines only
\* and its lines are the top of the file
C36_Witness ==
    /\ rev \in {"strict", "lenient"}
    /\ last.op = "update" /\ last.outcome = "ok"
    /\ Len(last.trace) = 3
    /\ last.trace[1].idx > 0 /\ last.trace[1].after # <<>>
    /\ last.trace[2].idx # -1
    /\ last.trace[2].idx < last.trace[1].idx
    /\ last.trace[2].idx + Len(last.trace[2].before) > last.trace[1].idx
    /\ last.trace[3].before = <<>> /\ last.trace[3].after # <<>>
    /\ StartsWith(ReadLines(fs, last.loc), last.trace[3].after)


\* the step is a pass of the strict or lenient revision over an Update with
\* a "Move to" that was carried out and is in the summary
UpdateMoved ==
    /\ rev \in {"strict", "lenient"}
    /\ PassOver("update")
    /\ last'.has_move
    /\ last'.outcome = "ok" /\ last'.summ # <<>>
    /\ last'.dest # last'.loc

\* C37: after a successful Update of p with "Move to: q", q other than p,
\* there is nothing at p and q holds the patched content, also when q was a
\* regular file before: its content is replaced and no warning is given;
\* every file other than p and q is as it was.
C37_MoveReplacesTheTargetFile ==
    [][UpdateMoved
         => /\ ~Exists(fs', last'.loc)
            /\ fs'[last'.dest] = FileNode(FileText(last'.content))
            /\ last'.warn = <<>>
            /\ \A loc \in Locs \ {last'.loc, last'.dest} :
                  fs[loc].kind = "file" \/ fs'[loc].kind = "file"
                    => fs'[loc] = fs[loc]]_vars

\* the file was moved, patched, onto a file that an Add of the same call had
\* made
C37_Witness ==
    /\ rev \in {"strict", "lenient"}
    /\ last.op = "update" /\ last.has_move /\ last.outcome = "ok"
    /\ Len(applied) = 2
    /\ applied[1].verb = "Added" /\ applied[1].path = Rel(last.dest)
    /\ applied[2].verb = "Updated"
    /\ ~Exists(fs, last.loc)
    /\ fs[last.dest] = FileNode(FileText(last.content))
    /\ last.content # <<<<"a">>>>


----------------------------------------------------------------------------
(* Properties of the conversation history *)

\* the number of tool messages that stand right after the p-th message
RECURSIVE ToolRunAfter(_, _)
ToolRunAfter(history, p) ==
    IF p < Len(history) /\ history[p + 1].role = "tool"
    THEN 1 + ToolRunAfter(history, p + 1) ELSE 0

\* the ids the tool messages of the history carry
AnsweredIds(history) ==
    UNION {Range(history[p].ids) : p \in {q \in 1..Len(history) :
                                             history[q].role = "tool"}}

\* the shape of the history around its assistant messages with tool calls
HistoryShape ==
    \A p \in 1..Len(conv.history) :
        (conv.history[p].role = "assistant" /\ conv.history[p].ids # <<>>)
          => IF conv.history[p].interrupted
             THEN /\ ToolRunAfter(conv.history, p) = 0
                  /\ Range(conv.history[p].ids) \cap AnsweredIds(conv.history) = {}
             ELSE \/ p = Len(conv.history) /\ conv.pc \in {"tools", "aborted"}
                  \/ /\ ToolRunAfter(conv.history, p) = Len(conv.history[p].ids)
                     /\ \A j \in 1..Len(conv.history[p].ids) :
                           conv.history[p + j].ids = <<conv.history[p].ids[j]>>

\* the step is the iteration of the tool loop over a call whose arguments
\* do not decode
DecodeFailure ==
    /\ conv.pc = "tools"
    /\ conv'.k = conv.k + 1
    /\ conv.calls[conv.k].args.json = "bad"

\* the step is the end of a stream by Ctrl+C
Interruption ==
    /\ conv.pc = "stream"
    /\ conv'.pc # "stream"
    /\ conv'.history[Len(conv'.history)].interrupted

\* C38: after a response that was not interrupted and carried n >= 1 calls,
\* exactly n tool messages follow the assistant message, one per call with
\* the id of its call, also for a call whose arguments do not decode, which
\* gets an error result and is not dispatched; after an interrupted response
\* the assistant message is stored with the calls collected so far and no
\* tool message follows it, so the history of every later request holds
\* calls without a result.
C38_HistoryShapeAfterAResponse ==
    /\ []HistoryShape
    /\ [][DecodeFailure
            => /\ conv'.dispatched = conv.dispatched
               /\ conv'.results = Append(conv.results,
                                          [id |-> conv.calls[conv.k].id,
                                           content |-> "decode_error"])]_vars
    /\ [][Interruption
            => /\ conv'.history = Append(conv.history,
                     Message("assistant", CallIds(conv.calls), TRUE))
               /\ conv'.pc = "prompt"]_vars

\* two calls of a response that was not interrupted were answered, one of
\* them without a dispatch; the next response was interrupted with a call
\* collected, and its message ends the history
C38_Witness ==
    /\ conv.pc = "prompt"
    /\ \E p \in 1..Len(conv.history) :
          /\ conv.history[p].role = "assistant" /\ ~conv.history[p].interrupted
          /\ Len(conv.history[p].ids) = 2
          /\ ToolRunAfter(conv.history, p) = 2
          /\ \E j \in 1..2 : conv.history[p].ids[j] \notin Range(conv.dispatched)
    /\ conv.history[Len(conv.history)].interrupted
    /\ conv.history[Len(conv.history)].ids # <<>>


----------------------------------------------------------------------------
(* Properties of the pages of a cache entry *)

\* what a view of the page answers for the entry, with the page size of the
\* call that has returned
PageView(page) ==
    CacheTool(cq.cache, "view", cq.call.cache_id, Some(page),
              cq.call.page_size).result

\* the pages 0 .. total_pages - 1 of the entry are a partition of its lines:
\* none is empty, each starts where the one before ended, each holds the
\* lines of its extent, and the last ends with the last line
PagesPartition(lines, total_pages) ==
    /\ total_pages >= 1
    /\ PageView(0).first = 0
    /\ \A p \in 0..(total_pages - 1) :
          /\ PageView(p).shape = "page"
          /\ PageView(p).display_page = p + 1
          /\ Len(PageView(p).body) >= 1
          /\ PageView(p).body
               = SubSeq(lines, PageView(p).first + 1,
                        PageView(p).first + Len(PageView(p).body))
          /\ IF p < total_pages - 1
             THEN PageView(p + 1).first
                    = PageView(p).first + Len(PageView(p).body)
             ELSE PageView(p).first + Len(PageView(p).body) = Len(lines)

\* the page nearest to the one asked for
NearestPage(page, total_pages) ==
    IF page < 0 THEN 0
    ELSE IF page > total_pages - 1 THEN total_pages - 1 ELSE page

\* C39: the pages of a live entry with T >= 1 lines, for a fixed page size
\* (clamped to 1..MAX_PAGE_SIZE), are a partition of the payload: pages
\* 0 .. total_pages - 1 are non-empty, disjoint, contiguous and hold every
\* line once, in order; a page below 0 or above the last page is served as
\* the nearest page; Next is offered exactly when the page is not the last,
\* Prev exactly when it is not the first.
C39_PagesPartitionThePayload ==
    ViewReturned =>
      /\ cq.result.shape = "page"
      /\ PagesPartition(cq.cache[cq.call.cache_id].lines, cq.result.total_pages)
      /\ cq.result = PageView(NearestPage(AskedPage(cq.call),
                                          cq.result.total_pages))
      /\ cq.result.next <=> cq.result.display_page < cq.result.total_pages
      /\ cq.result.prev <=> cq.result.display_page > 1

\* a view asked for a page far above the last one of an entry of several
\* pages, the last of them not full, and was given the last page
C39_Witness ==
    /\ ViewReturned
    /\ AskedPage(cq.call) > cq.result.total_pages
    /\ cq.result.total_pages >= 2
    /\ cq.result.display_page = cq.result.total_pages
    /\ Len(cq.result.body) < ClampPageSize(AskedSize(cq.call))
    /\ Len(cq.result.body) >= 1
    /\ cq.result.prev /\ ~cq.result.next


\* ---------------------------------------------------------------------
\* Properties of the line caps of the packaged model view
\* ---------------------------------------------------------------------

\* the packaged exec has returned the two views of a child that exited
PackagedExecCompleted == rev = "packaged" /\ ExecCompleted

\* the cap the command of the call asks for: the strict one for a shell
\* command in which the analysis finds a recursive listing or search
CapOfTheCall ==
    IF /\ Lower(cq.call.kind) = "shell"
       /\ \/ "recursive_ls" \in AnalyzeShellCommand(cq.call.code)
          \/ "recursive_search" \in AnalyzeShellCommand(cq.call.code)
    THEN MODEL_STRICT_OUTPUT_LINES
    ELSE MODEL_MAX_OUTPUT_LINES

\* the number of lines of a stream that stand in a text
LinesShown(text, stream) ==
    Cardinality({n \in 1..Len(text.lines) :
                   \E k \in 1..Len(stream.lines) :
                      /\ text.lines[n].s = stream.lines[k].s
                      /\ text.lines[n].i = stream.lines[k].i})

\* the numbers of hidden lines that the notes of a text state
HiddenStated(text) ==
    {text.lines[n].i : n \in {n \in 1..Len(text.lines) :
                                text.lines[n].s = DefaultNote}}

\* the numbers of hidden lines two streams cut at two caps leave
HiddenBy(out, out_cap, err, err_cap) ==
    {h \in {Len(out.lines) - out_cap, Len(err.lines) - err_cap} : h > 0}

====
